---- MODULE Spec2Model ----
(***************************************************************************)
(* Model of the tool-execution protocol of MCP_Web_Automation:             *)
(*   src/src/errors.py      ErrorCode, ToolError.to_payload,               *)
(*                          to_error_payload                               *)
(*   src/src/browser.py     BrowserManager.session / shutdown              *)
(*   src/src/tools/*.py     with_session, validate and the six runners     *)
(*   src/src/mcp_server.py  ToolService.call                               *)
(*                                                                         *)
(*   src/src/mcp_server.py  MCPServer.serve_forever / _dispatch / handle   *)
(*   src/src/scraping_agent.py  ScrapingAgent.scrape and its steps          *)
(*                                                                         *)
(* Strings built with f-strings are sequences of fragments; the empty      *)
(* string is the empty sequence.  The rendering engine (Playwright) is an  *)
(* external collaborator: what it answers to each call is an input of the  *)
(* action (eng), what the runners do with the answer is the code's.        *)
(***************************************************************************)
EXTENDS Integers, Sequences, FiniteSets, TLC

\* ------------------------------------------------------------------ bounds
MaxSessions == 2   \* contexts the browsers are asked to create in one run
MaxManagers == 2   \* managers (constructions of a browser) in one run
MaxDuration == 1   \* largest elapsed time, in ms, a call is measured to take
MaxLines == 3      \* lines on the dispatcher's input stream
MaxPages == 3      \* largest max_pages a job is configured with
MaxInteractions == 2   \* longest list of pre-interactions of a job
MaxJobPages == 2   \* largest max_pages of the jobs an agent runs in sequence
MaxItems == 2      \* the analysis is given every list of up to MaxItems items
LongPage == 1001   \* and lists of LongPage items

\* ------------------------------------------------------------ error kinds
ErrorCode ==
  {"INVALID_URL", "NAVIGATION_TIMEOUT", "NETWORK_ERROR", "ELEMENT_NOT_FOUND",
   "ELEMENT_NOT_VISIBLE", "ELEMENT_NOT_EDITABLE", "ELEMENT_NOT_CLICKABLE",
   "INTERNAL_ERROR"}

\* ------------------------------------------------------------ identifiers
\* A session_id argument: None (key absent or null), the empty string, a
\* value that is not a string, or a string "sess_<hex>".  A caller may pass a
\* string the manager does not know (yet).
None == <<"None", 0>>
EmptyStr == <<"str", 0>>
NotAStr == <<"int", 7>>
SessIds == {<<"sess", n>> : n \in 1..MaxSessions}

\* Python truthiness of a session_id value.
Truthy(sid) == sid # None /\ sid # EmptyStr

\* ------------------------------------------------------------- documents
Blank == "about:blank"
ErrorDoc == "chrome-error://chromewebdata/"
Urls == {"http://a.test/", "FTP://c.test/"}

\* urlparse(url).scheme: the part before the first ':', in lower case.
UrlScheme(url) ==
  CASE url = "http://a.test/" -> "http"
    [] url = "FTP://c.test/" -> "ftp"
    [] OTHER -> ""

\* A click that lands may take the page elsewhere (a link, a "next" button).
ClickTarget == "http://a.test/"

\* page.content() and page.title() of a page showing doc.
Markup(doc) == <<"<html>", doc>>

Selectors == {"#next"}
\* str(exc) of the exceptions a capability can let escape: some exceptions
\* render as the empty string (TimeoutError(), KeyError() with no argument).
ExcMsgs == {<<>>, <<"boom">>}

\* ------------------------------------------------------------------ state
VARIABLES
  sessions,       \* BrowserManager._sessions: insertion-ordered dict, as a
                  \* sequence of [id, context, page]
  created,        \* number of contexts (and pages) the browser has created
  pageDoc,        \* what each created page shows
  pageClosed,     \* pages that have been closed
  ctxClosed,      \* contexts that have been closed
  browserClosed,  \* browser.close() has run
  instance,       \* BrowserManager._instance is this manager
  last,           \* the last operation: its input, the outcome of the
                  \* capability's run and what the caller got back
  navigated,      \* history: per session, the url of its last successful
                  \* navigate if no later call acted on its page
  aborted,        \* history: a shutdown attempt was cut short
  others          \* the managers of the other services the client holds,
                  \* each with the fields above; the variables above are
                  \* those of the manager of the service it is using

\* MCPServer (the stdio dispatcher)
VARIABLES
  stdin,          \* the lines of the input stream, in order
  pos,            \* how many of them serve_forever has read
  stdout,         \* the output stream: the lines written, how many flushed
  dpc,            \* where serve_forever stands
  cur,            \* the stripped line being dispatched
  disp            \* what _dispatch gave for it

\* the tool service and its session boundary
vars == <<sessions, created, pageDoc, pageClosed, ctxClosed, browserClosed,
          instance, last, navigated, aborted, others>>

dvars == <<stdin, pos, stdout, dpc, cur, disp>>

\* ScrapingAgent and the job it runs
VARIABLES
  config,              \* the ScrapingConfig of the job
  apc,                 \* where scrape stands
  self_session_id,     \* self.session_id
  interacted,          \* interactions of the list gone through
  page_count,          \* scrape's page_count
  all_extracted_data,  \* scrape's all_extracted_data
  html_content,        \* the markup of the page being processed
  selector,            \* the selector the pagination probe gave
  extraction_result,   \* the ExtractionResult returned
  log,                 \* history: the calls the job made, in order
  cli                  \* scraping_cli.main: what it was started with and
                       \* how it exited

avars == <<config, apc, self_session_id, interacted, page_count,
           all_extracted_data, html_content, selector, extraction_result,
           log, cli>>

\* The manager's state as one value, so that the code's functions can be
\* written as operators from state to state.
Mgr ==
  [sessions |-> sessions, created |-> created, pageDoc |-> pageDoc,
   browserClosed |-> browserClosed]

Keys(ss) == {ss[i].id : i \in 1..Len(ss)}
Lookup(ss, id) == ss[CHOOSE i \in 1..Len(ss) : ss[i].id = id]

\* dict[id] = entry: replaces the value of a known key in place, appends a
\* new key at the end.
DictSet(ss, entry) ==
  IF entry.id \in Keys(ss)
    THEN [i \in 1..Len(ss) |-> IF ss[i].id = entry.id THEN entry ELSE ss[i]]
    ELSE Append(ss, entry)

\* --------------------------------------------------- outcomes of tool.run
Ret(sid, data, M, minted) ==
  [kind |-> "return", session_id |-> sid, data |-> data, M |-> M,
   minted |-> minted]

RaiseToolError(code, message, details, M, minted) ==
  [kind |-> "ToolError", code |-> code, message |-> message,
   details |-> details, M |-> M, minted |-> minted]

RaiseException(message, M, minted) ==
  [kind |-> "Exception", message |-> message, M |-> M, minted |-> minted]

NoDetails == <<>>

\* ------------------------------------------------------------- errors.py
\* ToolError.to_payload: details only when truthy.
to_payload(e) ==
  IF e.details # NoDetails
    THEN [code |-> e.code, message |-> e.message, details |-> e.details]
    ELSE [code |-> e.code, message |-> e.message]


\* Variant: an unclassified failure is reported under a code of its own.
to_error_payload_Unclassified(exc) ==
  IF exc.kind = "ToolError"
    THEN to_payload(exc)
    ELSE [code |-> "UNKNOWN_ERROR",
          message |-> IF exc.message # <<>> THEN exc.message
                      ELSE <<"Internal error">>]

\* to_error_payload: str(exc) or "Internal error".
to_error_payload(exc) ==
  IF exc.kind = "ToolError"
    THEN to_payload(exc)
    ELSE [code |-> "INTERNAL_ERROR",
          message |-> IF exc.message # <<>> THEN exc.message
                      ELSE <<"Internal error">>]

\* ------------------------------------------------------------ browser.py

\* Variant: the lookup is skipped, every call gets a new context and page.
session_NoReuse(session_id, uuid, M) ==
  IF M.browserClosed
    THEN [kind |-> "Exception",
          message |-> <<"Target page, context or browser has been closed">>,
          M |-> M, minted |-> None]
    ELSE LET h == M.created + 1
             sid == IF Truthy(session_id) THEN session_id ELSE uuid
         IN [kind |-> "return", session_id |-> sid, page |-> h,
             M |-> [M EXCEPT
                      !.sessions = DictSet(@, [id |-> sid, context |-> h,
                                               page |-> h]),
                      !.created = h,
                      !.pageDoc = [p \in 1..h |->
                                     IF p = h THEN Blank ELSE @[p]]],
             minted |-> sid]

\* Variant: a new session is handed the page of the session created before
\* it instead of a page of its own context.
session_SharedPage(session_id, uuid, M) ==
  IF Truthy(session_id) /\ session_id \in Keys(M.sessions)
    THEN [kind |-> "return", session_id |-> session_id,
          page |-> Lookup(M.sessions, session_id).page, M |-> M,
          minted |-> None]
    ELSE IF M.browserClosed
      THEN [kind |-> "Exception",
            message |-> <<"Target page, context or browser has been closed">>,
            M |-> M, minted |-> None]
      ELSE LET h == M.created + 1
               pg == IF M.created = 0 THEN h ELSE M.created
               sid == IF Truthy(session_id) THEN session_id ELSE uuid
           IN [kind |-> "return", session_id |-> sid, page |-> pg,
               M |-> [M EXCEPT
                        !.sessions = DictSet(@, [id |-> sid, context |-> h,
                                                 page |-> pg]),
                        !.created = h,
                        !.pageDoc = [p \in 1..h |->
                                       IF p = h THEN Blank ELSE @[p]]],
               minted |-> sid]

\* BrowserManager.session.  uuid is the value uuid4 yields for this call; M
\* the manager's state.  A closed browser refuses to create a context.
session(session_id, uuid, M) ==
  IF Truthy(session_id) /\ session_id \in Keys(M.sessions)
    THEN [kind |-> "return", session_id |-> session_id,
          page |-> Lookup(M.sessions, session_id).page, M |-> M,
          minted |-> None]
    ELSE IF M.browserClosed
      THEN [kind |-> "Exception",
            message |-> <<"Target page, context or browser has been closed">>,
            M |-> M, minted |-> None]
      ELSE LET h == M.created + 1
               sid == IF Truthy(session_id) THEN session_id ELSE uuid
           IN [kind |-> "return", session_id |-> sid, page |-> h,
               M |-> [M EXCEPT
                        !.sessions = DictSet(@, [id |-> sid, context |-> h,
                                                 page |-> h]),
                        !.created = h,
                        !.pageDoc = [p \in 1..h |->
                                       IF p = h THEN Blank ELSE @[p]]],
               minted |-> sid]

\* ---------------------------------------------------------- tools/base.py
SidOf(raw) == IF "session_id" \in DOMAIN raw THEN raw.session_id ELSE None

\* SessionInput: session_id is a string or None.
SessionInputValid(raw) == SidOf(raw) # NotAStr

\* validate: a pydantic ValidationError becomes a ToolError.
validate(valid, M) ==
  IF valid
    THEN [kind |-> "return", M |-> M, minted |-> None]
    ELSE RaiseToolError("INTERNAL_ERROR",
                        <<"Invalid arguments supplied to tool.">>,
                        <<"validation_errors">>, M, None)


\* Variant: the validated session_id is not passed on to the manager.
with_session_Forgetful(raw, valid, uuid, M) ==
  IF ~valid THEN validate(valid, M) ELSE session(None, uuid, M)

\* Variant: the session is resolved first, the arguments validated after.
with_session_ResolvesFirst(raw, valid, uuid, M) ==
  IF session(SidOf(raw), uuid, M).kind # "return" \/ valid
    THEN session(SidOf(raw), uuid, M)
    ELSE validate(valid, session(SidOf(raw), uuid, M).M)

\* with_session: validate, then resolve the session.
with_session(raw, valid, uuid, M) ==
  IF ~valid THEN validate(valid, M) ELSE session(SidOf(raw), uuid, M)

SetDoc(M, page, doc) == [M EXCEPT !.pageDoc[page] = doc]

\* What the engine answers during one run.  The runner asks in the order
\* of its code and stops asking at the first answer that ends the run, so
\* an answer lists the replies up to that point and holds the rest at one
\* value.  msg is the text of the exception the engine raises, if any;
\* elapsed is the time the call is measured to take.  response is the
\* status of the response page.goto returns, 0 when it returns None.
NavEng ==
  {e \in [goto : {"ok", "timeout", "error"}, stays : BOOLEAN,
          response : {0, 200, 404}, title : {"ok", "crash"}, msg : ExcMsgs,
          elapsed : 0..MaxDuration] :
     /\ (e.goto = "ok") => e.stays = FALSE
     /\ (e.goto # "ok" \/ e.title # "ok") => e.response = 200
     /\ (e.goto # "ok") => e.title = "ok"
     /\ (e.goto = "timeout" \/ (e.goto = "ok" /\ e.title = "ok"))
          => e.msg = <<>>}

ClickEng ==
  {e \in [crash : BOOLEAN, count : 0..1, visible : BOOLEAN,
          enabled : BOOLEAN, click : {"ok", "timeout", "error"},
          stays : BOOLEAN, msg : ExcMsgs, elapsed : 0..MaxDuration] :
     /\ (e.crash \/ e.count = 0) => e.visible
     /\ (e.crash \/ e.count = 0 \/ ~e.visible) => e.enabled
     /\ (e.crash \/ e.count = 0 \/ ~e.visible \/ ~e.enabled)
          => e.click = "ok"
     /\ e.crash => e.count = 0
     /\ (e.crash \/ e.count = 0 \/ ~e.visible \/ ~e.enabled
           \/ e.click # "ok") => e.stays
     /\ (~e.crash /\ e.click # "error") => e.msg = <<>>}

FillEng ==
  {e \in [crash : BOOLEAN, count : 0..1, visible : BOOLEAN,
          editable : BOOLEAN, fill : {"ok", "error"}, msg : ExcMsgs,
          elapsed : 0..MaxDuration] :
     /\ (e.crash \/ e.count = 0) => e.visible
     /\ (e.crash \/ e.count = 0 \/ ~e.visible) => e.editable
     /\ (e.crash \/ e.count = 0 \/ ~e.visible \/ ~e.editable)
          => e.fill = "ok"
     /\ e.crash => e.count = 0
     /\ (~e.crash /\ e.fill # "error") => e.msg = <<>>}

ShotEng ==
  {e \in [shot : {"ok", "error"}, msg : ExcMsgs, elapsed : 0..MaxDuration] :
     /\ (e.shot = "ok") => e.msg = <<>>}

ReadEng ==
  {e \in [crash : BOOLEAN, msg : ExcMsgs, elapsed : 0..MaxDuration] :
     /\ ~e.crash => e.msg = <<>>}

\* The engines that are not asked anything: one answer, and every time
\* the call can be measured to take.
Unasked(E) ==
  LET quiet == CHOOSE e \in E : e.elapsed = MaxDuration /\ e.msg = <<>>
  IN {e \in E : [e EXCEPT !.elapsed = MaxDuration] = quiet}

\* ------------------------------------------------------ tools/navigate.py
NavigateInputValid(raw) == SessionInputValid(raw) /\ "url" \in DOMAIN raw

\* Variant: the scheme is looked at after the page was sent to the URL.
navigate_page_LoadsFirst(raw, eng, ws) ==
  IF ws.kind # "return" THEN ws
     ELSE
       LET M == ws.M
           page == ws.page
           scheme == UrlScheme(raw.url)
           failed == IF eng.stays THEN M ELSE SetDoc(M, page, ErrorDoc)
           loaded == SetDoc(M, page, raw.url)
       IN IF scheme \notin {"http", "https"}
            THEN RaiseToolError("INVALID_URL",
                   <<"Only http(s) URLs are supported (got ", scheme, ").">>,
                   NoDetails, SetDoc(M, page, ErrorDoc), ws.minted)
          ELSE IF eng.goto = "timeout"
            THEN RaiseToolError("NAVIGATION_TIMEOUT",
                   <<"Navigation to ", raw.url, " timed out.">>,
                   NoDetails, failed, ws.minted)
          ELSE IF eng.goto = "error"
            THEN RaiseToolError("NETWORK_ERROR",
                   <<"Navigation failed for ", raw.url, ": ">> \o eng.msg,
                   NoDetails, failed, ws.minted)
          ELSE IF eng.title = "crash"
            THEN RaiseException(eng.msg, loaded, ws.minted)
          ELSE Ret(ws.session_id,
                   [current_url |-> loaded.pageDoc[page],
                    status |-> IF eng.response = 0 THEN None
                               ELSE eng.response,
                    title |-> <<"title of ", loaded.pageDoc[page]>>],
                   loaded, ws.minted)

\* The runner after its with_session line; ws is what with_session gave
\* (or raised).
navigate_page(raw, eng, ws) ==
  IF ws.kind # "return" THEN ws
     ELSE
       LET M == ws.M
           page == ws.page
           scheme == UrlScheme(raw.url)
           failed == IF eng.stays THEN M ELSE SetDoc(M, page, ErrorDoc)
           loaded == SetDoc(M, page, raw.url)
       IN IF scheme \notin {"http", "https"}
            THEN RaiseToolError("INVALID_URL",
                   <<"Only http(s) URLs are supported (got ", scheme, ").">>,
                   NoDetails, M, ws.minted)
          ELSE IF eng.goto = "timeout"
            THEN RaiseToolError("NAVIGATION_TIMEOUT",
                   <<"Navigation to ", raw.url, " timed out.">>,
                   NoDetails, failed, ws.minted)
          ELSE IF eng.goto = "error"
            THEN RaiseToolError("NETWORK_ERROR",
                   <<"Navigation failed for ", raw.url, ": ">> \o eng.msg,
                   NoDetails, failed, ws.minted)
          ELSE IF eng.title = "crash"
            THEN RaiseException(eng.msg, loaded, ws.minted)
          ELSE Ret(ws.session_id,
                   [current_url |-> loaded.pageDoc[page],
                    status |-> IF eng.response = 0 THEN None
                               ELSE eng.response,
                    title |-> <<"title of ", loaded.pageDoc[page]>>],
                   loaded, ws.minted)

navigate(raw, uuid, eng, M0) ==
  navigate_page(raw, eng, with_session(raw, NavigateInputValid(raw), uuid, M0))

\* --------------------------------------------------------- tools/click.py
ClickInputValid(raw) == SessionInputValid(raw) /\ "selector" \in DOMAIN raw

\* Variant: the runner does not count the elements the selector matches.
click_page_Uncounted(raw, eng, ws) ==
  IF ws.kind # "return" THEN ws
     ELSE
       LET M == ws.M
           page == ws.page
       IN IF eng.crash
            THEN RaiseException(eng.msg, M, ws.minted)
          ELSE IF ~eng.visible
            THEN RaiseToolError("ELEMENT_NOT_VISIBLE",
                   <<"Element '", raw.selector, "' never became visible.">>,
                   NoDetails, M, ws.minted)
          ELSE IF ~eng.enabled
            THEN RaiseToolError("ELEMENT_NOT_CLICKABLE",
                   <<"Element '", raw.selector, "' is disabled.">>,
                   NoDetails, M, ws.minted)
          ELSE IF eng.click = "timeout"
            THEN RaiseToolError("ELEMENT_NOT_CLICKABLE",
                   <<"Element '", raw.selector, "' was not clickable.">>,
                   NoDetails, M, ws.minted)
          ELSE IF eng.click = "error"
            THEN RaiseToolError("INTERNAL_ERROR",
                   <<"Clicking '", raw.selector, "' failed: ">> \o eng.msg,
                   NoDetails, M, ws.minted)
          ELSE Ret(ws.session_id, [clicked |-> TRUE],
                   IF eng.stays THEN M ELSE SetDoc(M, page, ClickTarget),
                   ws.minted)

\* The runner after its with_session line.
click_page(raw, eng, ws) ==
  IF ws.kind # "return" THEN ws
     ELSE
       LET M == ws.M
           page == ws.page
       IN IF eng.crash
            THEN RaiseException(eng.msg, M, ws.minted)
          ELSE IF eng.count = 0
            THEN RaiseToolError("ELEMENT_NOT_FOUND",
                   <<"No element matches selector '", raw.selector, "'.">>,
                   NoDetails, M, ws.minted)
          ELSE IF ~eng.visible
            THEN RaiseToolError("ELEMENT_NOT_VISIBLE",
                   <<"Element '", raw.selector, "' never became visible.">>,
                   NoDetails, M, ws.minted)
          ELSE IF ~eng.enabled
            THEN RaiseToolError("ELEMENT_NOT_CLICKABLE",
                   <<"Element '", raw.selector, "' is disabled.">>,
                   NoDetails, M, ws.minted)
          ELSE IF eng.click = "timeout"
            THEN RaiseToolError("ELEMENT_NOT_CLICKABLE",
                   <<"Element '", raw.selector, "' was not clickable.">>,
                   NoDetails, M, ws.minted)
          ELSE IF eng.click = "error"
            THEN RaiseToolError("INTERNAL_ERROR",
                   <<"Clicking '", raw.selector, "' failed: ">> \o eng.msg,
                   NoDetails, M, ws.minted)
          ELSE Ret(ws.session_id, [clicked |-> TRUE],
                   IF eng.stays THEN M ELSE SetDoc(M, page, ClickTarget),
                   ws.minted)

click(raw, uuid, eng, M0) ==
  click_page(raw, eng, with_session(raw, ClickInputValid(raw), uuid, M0))

\* ---------------------------------------------------------- tools/fill.py
FillInputValid(raw) ==
  SessionInputValid(raw) /\ "selector" \in DOMAIN raw /\ "value" \in DOMAIN raw

\* The runner after its with_session line.
fill_page(raw, eng, ws) ==
  IF ws.kind # "return" THEN ws
     ELSE
       LET M == ws.M
       IN IF eng.crash
            THEN RaiseException(eng.msg, M, ws.minted)
          ELSE IF eng.count = 0
            THEN RaiseToolError("ELEMENT_NOT_FOUND",
                   <<"No element matches selector '", raw.selector, "'.">>,
                   NoDetails, M, ws.minted)
          ELSE IF ~eng.visible
            THEN RaiseToolError("ELEMENT_NOT_VISIBLE",
                   <<"Element '", raw.selector, "' never became visible.">>,
                   NoDetails, M, ws.minted)
          ELSE IF ~eng.editable
            THEN RaiseToolError("ELEMENT_NOT_EDITABLE",
                   <<"Element '", raw.selector, "' is not editable.">>,
                   NoDetails, M, ws.minted)
          ELSE IF eng.fill = "error"
            THEN RaiseToolError("INTERNAL_ERROR",
                   <<"Filling '", raw.selector, "' failed: ">> \o eng.msg,
                   NoDetails, M, ws.minted)
          ELSE Ret(ws.session_id, [filled |-> TRUE], M, ws.minted)

fill(raw, uuid, eng, M0) ==
  fill_page(raw, eng, with_session(raw, FillInputValid(raw), uuid, M0))

\* ---------------------------------------------------- tools/screenshot.py
\* mode defaults to "viewport" and must match ^(viewport|fullpage)$.
ModeOf(raw) == IF "mode" \in DOMAIN raw THEN raw.mode ELSE "viewport"
ScreenshotInputValid(raw) ==
  SessionInputValid(raw) /\ ModeOf(raw) \in {"viewport", "fullpage"}

\* The runner after its with_session line.
screenshot_page(raw, eng, ws) ==
  IF ws.kind # "return" THEN ws
     ELSE
       LET M == ws.M
           page == ws.page
       IN IF eng.shot = "error"
            THEN RaiseToolError("INTERNAL_ERROR",
                   <<"Screenshot failed: ">> \o eng.msg, NoDetails, M,
                   ws.minted)
          ELSE Ret(ws.session_id,
                   [current_url |-> M.pageDoc[page], mode |-> ModeOf(raw),
                    image_b64 |-> <<"png", ModeOf(raw) = "fullpage",
                                    M.pageDoc[page]>>],
                   M, ws.minted)

screenshot(raw, uuid, eng, M0) ==
  screenshot_page(raw, eng,
                  with_session(raw, ScreenshotInputValid(raw), uuid, M0))

\* ------------------------------------------------- tools/extract_links.py
\* ExtractLinksInput: filter_contains is a string or None.  A string is a
\* sequence of characters here, so that containment can be computed.
ExtractLinksInputValid(raw) ==
  /\ SessionInputValid(raw)
  /\ "filter_contains" \in DOMAIN raw => raw.filter_contains # NotAStr

\* The runner after its with_session line.  Anchors: the anchors of a
\* document, each with the characters of f"{label} {absolute}".  Kept: the
\* test of lines 45-47, a case-insensitive containment that is made only
\* when the filter is a non-empty string.
extract_links_page(raw, eng, ws) ==
  LET Anchors(doc) ==
        IF doc = "http://a.test/"
          THEN <<[text |-> "c", url |-> "FTP://c.test/",
                  is_external |-> TRUE,
                  chars |-> <<"c", " ", "F", "T", "P", ":", "/", "/", "c",
                              ".", "t", "e", "s", "t", "/">>]>>
          ELSE <<>>
      Upper == <<"A", "B", "C", "D", "E", "F", "G", "H", "I", "J", "K", "L",
                 "M", "N", "O", "P", "Q", "R", "S", "T", "U", "V", "W", "X",
                 "Y", "Z">>
      Lower == <<"a", "b", "c", "d", "e", "f", "g", "h", "i", "j", "k", "l",
                 "m", "n", "o", "p", "q", "r", "s", "t", "u", "v", "w", "x",
                 "y", "z">>
      lower(str) ==
        [i \in 1..Len(str) |->
           IF \E k \in 1..26 : Upper[k] = str[i]
             THEN Lower[CHOOSE k \in 1..26 : Upper[k] = str[i]]
             ELSE str[i]]
      In(needle, hay) ==
        \E i \in 0..(Len(hay) - Len(needle)) :
          SubSeq(hay, i + 1, i + Len(needle)) = needle
      filter == IF "filter_contains" \in DOMAIN raw
                  THEN raw.filter_contains ELSE None
      Kept(a) ==
        (filter # None /\ filter # <<>>) => In(lower(filter), lower(a.chars))
      Candidate(a) ==
        [text |-> a.text, url |-> a.url, is_external |-> a.is_external]
      RECURSIVE Links(_)
      Links(as) ==
        IF as = <<>> THEN <<>>
        ELSE (IF Kept(Head(as)) THEN <<Candidate(Head(as))>> ELSE <<>>)
               \o Links(Tail(as))
  IN IF ws.kind # "return" THEN ws
     ELSE IF eng.crash
       THEN RaiseException(eng.msg, ws.M, ws.minted)
     ELSE Ret(ws.session_id,
              [links |-> Links(Anchors(ws.M.pageDoc[ws.page]))],
              ws.M, ws.minted)

extract_links(raw, uuid, eng, M0) ==
  extract_links_page(raw, eng,
                     with_session(raw, ExtractLinksInputValid(raw), uuid, M0))

\* ------------------------------------------------------ tools/get_html.py
\* The runner after its with_session line.
get_html_page(raw, eng, ws) ==
  IF ws.kind # "return" THEN ws
  ELSE IF eng.crash
    THEN RaiseException(eng.msg, ws.M, ws.minted)
  ELSE Ret(ws.session_id, [html |-> Markup(ws.M.pageDoc[ws.page])],
           ws.M, ws.minted)

get_html(raw, uuid, eng, M0) ==
  get_html_page(raw, eng, with_session(raw, SessionInputValid(raw), uuid, M0))

\* ------------------------------------------------------ tools/__init__.py
\* build_tools: the registry's keys, in registration order.
ToolOrder ==
  <<"navigate", "screenshot", "extract_links", "fill", "click", "get_html">>
Tools == {ToolOrder[i] : i \in 1..Len(ToolOrder)}
UnknownNames == {"bogus"}

\* self.tools[name].run(incoming_args)
run(name, raw, uuid, eng, M) ==
  CASE name = "navigate" -> navigate(raw, uuid, eng, M)
    [] name = "screenshot" -> screenshot(raw, uuid, eng, M)
    [] name = "extract_links" -> extract_links(raw, uuid, eng, M)
    [] name = "fill" -> fill(raw, uuid, eng, M)
    [] name = "click" -> click(raw, uuid, eng, M)
    [] name = "get_html" -> get_html(raw, uuid, eng, M)

\* ---------------------------------------------------------- mcp_server.py
\* meta: the timestamp is the clock's and is left out.
Meta(duration) == [duration_ms |-> duration]

\* What the caller of ToolService.call observes: an envelope, or an
\* exception that was let through.
Returns(env, r, ran, M) ==
  [raised |-> FALSE, env |-> env, run |-> r, ran |-> ran, M |-> M]
Raises(r, M) ==
  [raised |-> TRUE, env |-> [ok |-> FALSE], run |-> r, ran |-> TRUE, M |-> M]

NoRun == [kind |-> "none", minted |-> None]


\* Variant: the failure envelope never carries the session identifier.
OnToolError_NoEcho(name, arguments, r, dur) ==
  Returns([ok |-> FALSE, tool |-> name, error |-> to_payload(r),
           meta |-> Meta(dur)],
          r, TRUE, r.M)

\* except ToolError
OnToolError(name, arguments, r, dur) ==
  LET failure == [ok |-> FALSE, tool |-> name, error |-> to_payload(r),
                  meta |-> Meta(dur)]
  IN Returns(IF Truthy(SidOf(arguments))
               THEN failure @@ [session_id |-> SidOf(arguments)]
               ELSE failure,
             r, TRUE, r.M)


\* Variant: there is no except Exception clause.
OnException_Propagates(name, arguments, r, dur) == Raises(r, r.M)

\* Variant: the failure envelope is built from the success one and keeps
\* its data key.
OnException_KeepsData(name, arguments, r, dur) ==
  Returns([ok |-> FALSE, tool |-> name, data |-> <<>>,
           error |-> to_error_payload(r), meta |-> Meta(dur)],
          r, TRUE, r.M)

\* except Exception
OnException(name, arguments, r, dur) ==
  Returns([ok |-> FALSE, tool |-> name, error |-> to_error_payload(r),
           meta |-> Meta(dur)],
          r, TRUE, r.M)


\* The try statement around tool.run: r is what the run did.
OnRun(name, arguments, r, dur) ==
  IF r.kind = "ToolError" THEN OnToolError(name, arguments, r, dur)
  ELSE IF r.kind = "Exception" THEN OnException(name, arguments, r, dur)
  ELSE Returns([ok |-> TRUE, tool |-> name, session_id |-> r.session_id,
                data |-> r.data, meta |-> Meta(dur)],
               r, TRUE, r.M)

\* Variant: a name that is not registered is served by get_html.
call_Fallback(name, arguments, uuid, eng, M) ==
  IF name \notin Tools
    THEN OnRun(name, arguments, get_html(arguments, uuid, eng, M),
               eng.elapsed)
    ELSE OnRun(name, arguments, run(name, arguments, uuid, eng, M),
               eng.elapsed)

\* ToolService.call
call(name, arguments, uuid, eng, M) ==
  IF name \notin Tools
    THEN Returns([ok |-> FALSE, tool |-> name,
                  error |-> [code |-> "INTERNAL_ERROR",
                             message |-> <<"Unknown tool: ", name>>],
                  meta |-> Meta(0)],
                 NoRun, FALSE, M)
    ELSE OnRun(name, arguments, run(name, arguments, uuid, eng, M),
               eng.elapsed)

\* ------------------------------------------- mcp_server.py: the dispatcher
\* A field of MCPResponse left at None.
Absent == [absent |-> TRUE]

\* {}
EmptyDict == <<>>

\* MCPResponse and its to_json: id always, result and error when not None.
MCPResponse(id, result, error) ==
  [id |-> id, result |-> result, error |-> error]


\* Variant: to_json writes the id only.
to_json_IdOnly(r) == [k \in {"id"} |-> r[k]]

to_json(r) ==
  [k \in {"id"} \cup {f \in {"result", "error"} : r[f] # Absent} |-> r[k]]

\* A line of the input stream after strip(): empty, text that is not JSON,
\* or a JSON object given by its keys.
IsBlank(line) == line.form = "blank"

\* MCPRequest.model_validate_json: the text must be a JSON object with a
\* method; id defaults to None and params to {}.
MCPRequestValid(payload) ==
  payload.form = "json" /\ "method" \in DOMAIN payload.doc

model_validate_json(payload) ==
  IF MCPRequestValid(payload)
    THEN [kind |-> "return",
          id |-> IF "id" \in DOMAIN payload.doc THEN payload.doc.id
                 ELSE None,
          method |-> payload.doc.method,
          params |-> IF "params" \in DOMAIN payload.doc
                       THEN payload.doc.params ELSE EmptyDict]
    ELSE [kind |-> "ValidationError",
          errors |-> IF payload.form = "json" THEN <<"missing", "method">>
                     ELSE <<"json_invalid">>]

\* ToolCallParams: name is required, arguments default to {}.
ArgumentsOf(params) ==
  IF "arguments" \in DOMAIN params THEN params.arguments ELSE EmptyDict

\* What MCPServer.handle does: returns a response, or lets a failure out.
Handled(response, M, ran, env) ==
  [kind |-> "return", response |-> response, M |-> M, ran |-> ran,
   env |-> env]


\* Variant: a capability failure is reported as the response's error.
OnCall_ErrorOnFailure(request, res) ==
  IF res.raised
    THEN [kind |-> "Exception", message |-> res.run.message, M |-> res.M,
          ran |-> res.ran, env |-> Absent]
  ELSE IF ~res.env.ok
    THEN Handled(MCPResponse(request.id, Absent, res.env.error),
                 res.M, res.ran, res.env)
  ELSE Handled(MCPResponse(request.id, res.env, Absent),
               res.M, res.ran, res.env)

\* handle, lines 210-211: the result of ToolService.call is the response's
\* result; what call lets out, handle lets out.
OnCall(request, res) ==
  IF res.raised
    THEN [kind |-> "Exception", message |-> res.run.message, M |-> res.M,
          ran |-> res.ran, env |-> Absent]
    ELSE Handled(MCPResponse(request.id, res.env, Absent),
                 res.M, res.ran, res.env)

handle(request, uuid, eng, M) ==
  IF request.method = "initialize"
    THEN Handled(MCPResponse(request.id,
                             [name |-> "mcp-web-automation",
                              version |-> "0.1.0", mcp_protocol |-> "stdio",
                              tools |-> ToolOrder],
                             Absent),
                 M, FALSE, Absent)
  ELSE IF request.method = "tools/list"
    THEN Handled(MCPResponse(request.id,
                             [tools |-> [i \in 1..Len(ToolOrder) |->
                                           [name |-> ToolOrder[i]]]],
                             Absent),
                 M, FALSE, Absent)
  ELSE IF request.method = "tools/call"
    THEN IF "name" \notin DOMAIN request.params
           THEN [kind |-> "ValidationError", errors |-> <<"missing", "name">>,
                 M |-> M, ran |-> FALSE, env |-> Absent]
           ELSE OnCall(request,
                       call(request.params.name, ArgumentsOf(request.params),
                            uuid, eng, M))
  ELSE Handled(MCPResponse(request.id, Absent,
                           [code |-> "INTERNAL_ERROR",
                            message |-> <<"Unknown method: ",
                                          request.method>>]),
               M, FALSE, Absent)

\* What _dispatch gives serve_forever: a response line, or a failure that
\* it let out.
Dispatched(line, M, ran, env) ==
  [raised |-> FALSE, line |-> line, M |-> M, ran |-> ran, env |-> env]


\* Variant: the parse of the line is not guarded.
OnInvalidRequest_Unguarded(v, M) ==
  [raised |-> TRUE, line |-> Absent, M |-> M, ran |-> FALSE, env |-> Absent]

\* _dispatch, lines 235-244
OnInvalidRequest(v, M) ==
  Dispatched(to_json(MCPResponse(None, Absent,
                                 [code |-> "INTERNAL_ERROR",
                                  message |-> <<"Invalid request payload">>,
                                  details |-> v.errors])),
             M, FALSE, Absent)


\* Variant: invalid parameters are answered like an invalid request line.
OnInvalidParams_NoId(request, h) ==
  MCPResponse(None, Absent,
              [code |-> "INTERNAL_ERROR",
               message |-> <<"Invalid parameters">>, details |-> h.errors])

\* _dispatch, lines 248-256
OnInvalidParams(request, h) ==
  MCPResponse(request.id, Absent,
              [code |-> "INTERNAL_ERROR",
               message |-> <<"Invalid parameters">>, details |-> h.errors])

\* _dispatch, lines 257-259

\* _dispatch, lines 246-261: h is what handle did.
Respond(request, h) ==
  Dispatched(to_json(IF h.kind = "ValidationError"
                       THEN OnInvalidParams(request, h)
                     ELSE IF h.kind = "Exception"
                       THEN MCPResponse(request.id, Absent,
                                        to_error_payload(h))
                     ELSE h.response),
             h.M, h.ran, h.env)

\* _dispatch after the parse: v is what model_validate_json gave.
Parsed(v, uuid, eng, M) ==
  IF v.kind = "ValidationError" THEN OnInvalidRequest(v, M)
  ELSE Respond(v, handle(v, uuid, eng, M))

dispatch(payload, uuid, eng, M) ==
  Parsed(model_validate_json(payload), uuid, eng, M)


\* Variant: the line is written and left in the buffer.
Emit_NoFlush(out, response_line) ==
  [out EXCEPT !.lines = Append(out.lines, response_line)]

\* serve_forever, lines 229-230: write, then flush.
Emit(out, response_line) ==
  [lines |-> Append(out.lines, response_line),
   flushed |-> Len(out.lines) + 1]

\* ------------------------------------------------------ scraping_agent.py
\* JSON values, as the completion service writes them and json.loads reads
\* them: a string is the sequence of its characters, an object the sequence
\* of its (key, value) pairs in order.
JNull == [t |-> "null"]
JNum(n) == [t |-> "num", n |-> n]
JStr(chars) == [t |-> "str", s |-> chars]
JList(elems) == [t |-> "list", v |-> elems]
JObj(pairs) == [t |-> "obj", v |-> pairs]
Pair(k, v) == [k |-> k, v |-> v]

HasKey(obj, k) == \E i \in 1..Len(obj.v) : obj.v[i].k = k
\* The first value of a mapping that is a list.
FirstList(obj) ==
  obj.v[CHOOSE i \in 1..Len(obj.v) :
          /\ obj.v[i].v.t = "list"
          /\ \A j \in 1..(i - 1) : obj.v[j].v.t # "list"].v

\* _parse_llm_response.  The text between the first { and the last } is
\* given to json.loads: a text without both ("prose") and a text whose slice
\* is not JSON ("broken") give []; a slice that parses is an object.
parse_llm_response(response_text) ==
  IF response_text.form = "prose" THEN JList(<<>>)
  ELSE IF response_text.form = "broken" THEN JList(<<>>)
  ELSE IF HasKey(response_text.doc, "items")
    THEN response_text.doc.v[CHOOSE i \in 1..Len(response_text.doc.v) :
                               response_text.doc.v[i].k = "items"].v
  ELSE IF \E i \in 1..Len(response_text.doc.v) :
            response_text.doc.v[i].v.t = "list"
    THEN FirstList(response_text.doc)
  ELSE JList(<<response_text.doc>>)


\* Variant: what is not a list counts as no items.
Extend_ListsOnly(all, page_data) ==
  IF page_data.t # "list"
    THEN [kind |-> "return", items |-> all]
    ELSE [kind |-> "return", items |-> all \o page_data.v]

\* scrape, lines 112-113: if page_data: all_extracted_data.extend(page_data)
\* A step of scrape goes on, or an exception reaches scrape's except clause
\* with str(e) = message.  What is falsy (None, 0, "", [], {}) is passed
\* over; extend takes the elements of a list, the characters of a string,
\* the keys of a mapping, and a number is not iterable.
Extend(all, page_data) ==
  CASE page_data.t = "null" -> [kind |-> "return", items |-> all]
    [] page_data.t = "num" ->
         IF page_data.n = 0
           THEN [kind |-> "return", items |-> all]
           ELSE [kind |-> "Exception",
                 message |-> <<"'int' object is not iterable">>]
    [] page_data.t = "str" ->
         [kind |-> "return",
          items |-> all \o [i \in 1..Len(page_data.s) |->
                              JStr(<<page_data.s[i]>>)]]
    [] page_data.t = "obj" ->
         [kind |-> "return",
          items |-> all \o [i \in 1..Len(page_data.v) |->
                              JStr(<<page_data.v[i].k>>)]]
    [] OTHER -> [kind |-> "return", items |-> all \o page_data.v]

\* _navigate_to_next_page, lines 359-374, on the content of the reply as
\* the sequence of its pieces: a fence ("'''"), a backtick, a blank, a line
\* break ("\n") or a word.  The content is stripped; when it starts with a
\* fence its first line goes whole, and its last line goes when that line
\* is a fence alone; a pair of backticks around the rest is taken off.
\* The value is the text that is left.
CleanSelector(content) ==
  LET White == {" ", "\n"}
      RECURSIVE lstrip(_)
      lstrip(t) ==
        IF t # <<>> /\ Head(t) \in White THEN lstrip(Tail(t)) ELSE t
      RECURSIVE rstrip(_)
      rstrip(t) ==
        IF t # <<>> /\ t[Len(t)] \in White
          THEN rstrip(SubSeq(t, 1, Len(t) - 1)) ELSE t
      strip(t) == rstrip(lstrip(t))
      RECURSIVE split(_)
      split(t) ==
        IF \E i \in 1..Len(t) : t[i] = "\n"
          THEN LET i == CHOOSE i \in 1..Len(t) :
                          t[i] = "\n" /\ \A j \in 1..(i - 1) : t[j] # "\n"
               IN <<SubSeq(t, 1, i - 1)>> \o split(SubSeq(t, i + 1, Len(t)))
          ELSE <<t>>
      RECURSIVE join(_)
      join(lines) ==
        IF lines = <<>> THEN <<>>
        ELSE IF Len(lines) = 1 THEN lines[1]
        ELSE lines[1] \o <<"\n">> \o join(Tail(lines))
      RECURSIVE count(_)
      count(t) ==
        IF t = <<>> THEN 0
        ELSE (CASE Head(t) = "'''" -> 3 [] Head(t) = "'" -> 1 [] OTHER -> 0)
               + count(Tail(t))
      RECURSIVE text(_)
      text(t) == IF t = <<>> THEN "" ELSE Head(t) \o text(Tail(t))
      Ticked(t) == t # <<>> /\ t[1] \in {"'", "'''"}
                     /\ t[Len(t)] \in {"'", "'''"}
      stripped == strip(content)
      lines == split(stripped)
      headless == IF lines[1] # <<>> /\ lines[1][1] = "'''"
                    THEN Tail(lines) ELSE lines
      body == IF headless # <<>> /\ strip(headless[Len(headless)]) = <<"'''">>
                THEN SubSeq(headless, 1, Len(headless) - 1) ELSE headless
      unfenced == IF stripped # <<>> /\ stripped[1] = "'''"
                    THEN strip(join(body)) ELSE stripped
      bare == IF Ticked(unfenced) /\ count(unfenced) = 2
                THEN strip(SubSeq(unfenced, 2, Len(unfenced) - 1))
                ELSE unfenced
  IN text(bare)

\* Variant: only the sentinel stops the loop, an empty reply is clicked.
NoNextPage_SentinelOnly(sel) == sel = "NO_PAGINATION"

\* if selector == "NO_PAGINATION" or not selector: return False
NoNextPage(sel) == sel = "NO_PAGINATION" \/ sel = ""

\* _call_tool: the envelope's session_id and data, or a ToolError made of
\* the envelope's error; what call lets out, _call_tool lets out.
call_tool(res) ==
  IF res.raised
    THEN [kind |-> "Exception", message |-> res.run.message, M |-> res.M]
  ELSE IF ~res.env.ok
    THEN [kind |-> "ToolError",
          code |-> IF res.env.error.code \in ErrorCode
                     THEN res.env.error.code ELSE "INTERNAL_ERROR",
          message |-> res.env.error.message, M |-> res.M]
  ELSE [kind |-> "return",
        session_id |-> IF "session_id" \in DOMAIN res.env
                         THEN res.env.session_id ELSE None,
        data |-> res.env.data, M |-> res.M]

\* str(e): ToolError.__str__ is "<code>: <message>".
StrOf(e) ==
  IF e.kind = "ToolError" THEN <<e.code, ": ">> \o e.message ELSE e.message

\* _structure_data: the items under the first schema key whose shape is a
\* non-empty list, else under "items"; metadata when the schema has the key
\* (its date is the clock's and is left out).  "if array_field:" also sends
\* the empty key to "items".
ArrayField(schema) ==
  LET IsArrayShape(shape) == shape.t = "list" /\ Len(shape.v) > 0
      array_field ==
        schema.v[CHOOSE i \in 1..Len(schema.v) :
                   /\ IsArrayShape(schema.v[i].v)
                   /\ \A j \in 1..(i - 1) : ~IsArrayShape(schema.v[j].v)].k
  IN IF \E i \in 1..Len(schema.v) : IsArrayShape(schema.v[i].v)
       THEN IF array_field = "" THEN "items" ELSE array_field
       ELSE "items"

\* result = {array_field: extracted_items}, then result["metadata"] = {...}
\* when the schema has the key: an assignment, which replaces the value of
\* a key the mapping already has.
structure_data(extracted_items, schema) ==
  LET metadata ==
        JObj(<<Pair("nb_resultats", JNum(Len(extracted_items)))>>)
  IN IF ~HasKey(schema, "metadata")
       THEN JObj(<<Pair(ArrayField(schema), JList(extracted_items))>>)
     ELSE IF ArrayField(schema) = "metadata"
       THEN JObj(<<Pair("metadata", metadata)>>)
     ELSE JObj(<<Pair(ArrayField(schema), JList(extracted_items)),
                 Pair("metadata", metadata)>>)

\* missing_fields[path] = missing_fields.get(path, 0) + 1, on a dict kept
\* as the sequence of its (path, count) entries in insertion order.
Bump(missing, path) ==
  IF \E i \in 1..Len(missing) : missing[i].field = path
    THEN [i \in 1..Len(missing) |->
            IF missing[i].field = path
              THEN [missing[i] EXCEPT !.count = @ + 1] ELSE missing[i]]
    ELSE Append(missing, [field |-> path, count |-> 1])

\* Variant: only null is missing.
IsMissing_NullOnly(value) == value.t = "null"

\* value is None or value == ""
IsMissing(value) ==
  value.t = "null" \/ (value.t = "str" /\ Len(value.s) = 0)

\* _check_item_completeness.check_nested: acc holds is_complete and
\* missing_fields; a path is the text the code makes of the keys.
RECURSIVE check_nested(_, _, _)
RECURSIVE CheckPairs(_, _, _)
RECURSIVE CheckElems(_, _, _)

\* Variant: a value is looked at, never into.
CheckValue_Shallow(value, field_path, acc) ==
  IF IsMissing(value)
    THEN [complete |-> FALSE, missing |-> Bump(acc.missing, field_path)]
    ELSE acc

CheckValue(value, field_path, acc) ==
  IF IsMissing(value)
    THEN [complete |-> FALSE, missing |-> Bump(acc.missing, field_path)]
  ELSE IF value.t \in {"obj", "list"}
    THEN check_nested(value, field_path, acc)
  ELSE acc

\* field_path = f"{prefix}.{key}" if prefix else key
CheckPairs(pairs, prefix, acc) ==
  IF pairs = <<>> THEN acc
  ELSE CheckPairs(Tail(pairs), prefix,
                  CheckValue(Head(pairs).v,
                             IF prefix = "" THEN Head(pairs).k
                             ELSE prefix \o "." \o Head(pairs).k,
                             acc))

CheckElems(elems, prefix, acc) ==
  IF elems = <<>> THEN acc
  ELSE CheckElems(Tail(elems), prefix, check_nested(Head(elems), prefix, acc))

check_nested(obj, prefix, acc) ==
  IF obj.t = "obj" THEN CheckPairs(obj.v, prefix, acc)
  ELSE IF obj.t = "list" THEN CheckElems(obj.v, prefix, acc)
  ELSE acc

\* _generate_quality_report, lines 443-448: the first list among the
\* values of the structured data, [] when there is none.
ReportItems(data) ==
  IF \E i \in 1..Len(data.v) : data.v[i].v.t = "list"
    THEN FirstList(data).v
    ELSE <<>>

\* Variant: a list without items counts as wholly complete.
EmptyReport_Full ==
  [total_items |-> 0, complete_items |-> 0, completion_rate |-> 1000,
   missing_fields |-> <<>>, errors |-> <<>>]

\* lines 450-457
EmptyReport ==
  [total_items |-> 0, complete_items |-> 0, completion_rate |-> 0,
   missing_fields |-> <<>>, errors |-> <<>>]

\* lines 468-484; a line of missing_fields is "<field>: <count> items".
\* Round3 is round(complete_items / total_items, 3), in thousandths.  A
\* quotient strictly between two half-way points goes to the nearer
\* thousandth.  A quotient on a half-way point k/2000 is first the nearest
\* binary64 number: up says whether that number lies above k/2000 (its
\* 53-bit significand drops a fraction above one half), and when it is
\* k/2000 itself the even thousandth is taken.
Report(total, counts) ==
  LET RECURSIVE ModPow2(_, _)
      ModPow2(k, n) ==
        IF n = 0 THEN k % 2000 ELSE (2 * ModPow2(k, n - 1)) % 2000
      RECURSIVE Shift(_, _)
      Shift(k, s) == IF k >= 2000 THEN s ELSE Shift(2 * k, s + 1)
      Round3(complete) ==
        LET q == (1000 * complete) \div total
            r == (1000 * complete) % total
            k == 2 * q + 1
            dropped == ModPow2(k, 52 + Shift(k, 0))
        IN IF 2 * r < total THEN q
           ELSE IF 2 * r > total THEN q + 1
           ELSE IF dropped = 0 THEN (IF q % 2 = 0 THEN q ELSE q + 1)
           ELSE IF dropped < 1000 THEN q
           ELSE q + 1
  IN [total_items |-> total,
      complete_items |-> counts.complete_items,
      completion_rate |-> Round3(counts.complete_items),
      missing_fields |-> [i \in 1..Len(counts.missing) |->
                            <<counts.missing[i].field, ": ",
                              counts.missing[i].count, " items">>],
      errors |-> <<>>]

RECURSIVE CheckItems(_, _, _, _)
\* The loop "for item in items" over items[lo..hi], in order, from the
\* counts the items before lo have left; the run over a range is the run
\* over its first half, then the run over its second half from the counts
\* the first has left.  On one item: if is_complete: complete_items += 1,
\* after _check_item_completeness has gone through the item (acc);
\* missing_fields is the one dict of the whole loop.
CheckItems(items, lo, hi, counts) ==
  IF lo > hi THEN counts
  ELSE IF lo = hi
    THEN CHOOSE counted \in
           {[complete_items |-> IF acc.complete
                                  THEN counts.complete_items + 1
                                  ELSE counts.complete_items,
             missing |-> acc.missing] :
              acc \in {check_nested(items[lo], "",
                                    [complete |-> TRUE,
                                     missing |-> counts.missing])}} :
           TRUE
  ELSE CHOOSE after \in
         {CheckItems(items, (lo + hi) \div 2 + 1, hi, before) :
            before \in {CheckItems(items, lo, (lo + hi) \div 2, counts)}} :
         TRUE

\* _generate_quality_report
generate_quality_report(data) ==
  IF Len(ReportItems(data)) = 0 THEN EmptyReport
  ELSE Report(Len(ReportItems(data)),
              CheckItems(ReportItems(data), 1, Len(ReportItems(data)),
                         [complete_items |-> 0, missing |-> <<>>]))

\* ExtractionResult: error is None on success.
SuccessResult(data, quality_report) ==
  [status |-> "success", data |-> data, quality_report |-> quality_report]


\* Variant: a failed job reports what it had gathered.
ErrorResult_Partial(message, items) ==
  [status |-> "error", data |-> JObj(<<Pair("items", JList(items))>>),
   quality_report |-> EmptyDict, error |-> message]

\* scrape, lines 136-143
ErrorResult(message, items) ==
  [status |-> "error", data |-> JObj(<<>>), quality_report |-> EmptyDict,
   error |-> message]

\* --------------------------------------------------------------- history
NoNav == [doc |-> "", interleaved |-> FALSE]

\* The session a call is aimed at: the one named in the arguments, else the
\* one about to be minted.
Target(raw, uuid) == IF Truthy(SidOf(raw)) THEN SidOf(raw) ELSE uuid

\* navigated after a call: a successful navigate records its url for the
\* target session; navigate failures, click and fill forget it (they may
\* have changed the page), and so does a call that binds the identifier to
\* a new page; every call marks the other sessions' records as having had a
\* call on another session in between.
NavHistory(nav, name, raw, uuid, res) ==
  LET t == Target(raw, uuid)
      reached == res.ran /\ ~(res.run.kind = "ToolError"
                              /\ res.run.details # NoDetails)
  IN [s \in SessIds |->
        IF ~reached THEN nav[s]
        ELSE IF s = t
          THEN IF name = "navigate"
                 THEN IF res.run.kind = "return"
                        THEN [doc |-> raw.url, interleaved |-> FALSE]
                        ELSE NoNav
               ELSE IF name \in {"click", "fill"} THEN NoNav
               ELSE IF res.run.minted = s THEN NoNav
               ELSE nav[s]
        ELSE IF nav[s] # NoNav THEN [nav[s] EXCEPT !.interleaved = TRUE]
        ELSE nav[s]]

\* ------------------------------------------------------------------ Init
\* No operation has been observed (also: the caller has taken the result).
NoOp ==
  [name |-> "", sid |-> None, raised |-> FALSE, env |-> [ok |-> FALSE],
   run |-> NoRun, ran |-> FALSE]

\* BrowserManager.__init__, and nothing observed yet.
ManagerInit ==
  /\ sessions = <<>>
  /\ created = 0
  /\ pageDoc = <<>>
  /\ pageClosed = {}
  /\ ctxClosed = {}
  /\ browserClosed = FALSE
  /\ instance = TRUE
  /\ last = NoOp
  /\ navigated = [s \in SessIds |-> NoNav]
  /\ aborted = FALSE
  /\ others = <<>>

\* No dispatcher is serving.
DispatcherOff ==
  /\ stdin = <<>>
  /\ pos = 0
  /\ stdout = [lines |-> <<>>, flushed |-> 0]
  /\ dpc = "off"
  /\ cur = [form |-> "none"]
  /\ disp = [raised |-> FALSE, ran |-> FALSE]

\* No agent is running a job.
AgentOff ==
  /\ config = [url |-> ""]
  /\ apc = "off"
  /\ self_session_id = None
  /\ interacted = 0
  /\ page_count = 0
  /\ all_extracted_data = <<>>
  /\ html_content = <<>>
  /\ selector = ""
  /\ extraction_result = [status |-> ""]
  /\ log = <<>>
  /\ cli = [pc |-> "off"]

\* A client calling ToolService.call directly (demo/scenario_part1.py).
Init ==
  /\ ManagerInit
  /\ DispatcherOff
  /\ AgentOff

\* --------------------------------------------------------------- actions
\* The values uuid4 can yield: any identifier, one that is a key of the
\* mapping included (session does not look whether the identifier it makes
\* is in use); one more than the mapping can hold, so that an unused one
\* is always among them.
UuidChoices ==
  IF SessIds \subseteq Keys(sessions)
    THEN SessIds \cup {<<"sess", MaxSessions + 1>>}
    ELSE SessIds

\* uuid4 is called only when the identifier passed is falsy.
Uuids(sid) ==
  IF Truthy(sid) THEN {CHOOSE u \in UuidChoices : TRUE} ELSE UuidChoices

Args(sid, extra) ==
  IF sid = None THEN extra ELSE [session_id |-> sid] @@ extra

\* One ToolService.call from a client; the client is synchronous and issues
\* it when it has taken the previous result.  The call acts on the manager
\* its service's tools are bound to.  The number of contexts one run
\* creates, over all its managers, is capped at MaxSessions.
Done(name, raw, uuid, res) ==
  /\ LET RECURSIVE Contexts(_)
         Contexts(k) ==
           IF k = 0 THEN res.M.created
           ELSE others[k].created + Contexts(k - 1)
     IN Contexts(Len(others)) <= MaxSessions
  /\ sessions' = res.M.sessions
  /\ created' = res.M.created
  /\ pageDoc' = res.M.pageDoc
  /\ last' = [name |-> name, sid |-> SidOf(raw), raised |-> res.raised,
              env |-> res.env,
              run |-> [f \in DOMAIN res.run \ {"M"} |-> res.run[f]],
              ran |-> res.ran]
  /\ navigated' = NavHistory(navigated, name, raw, uuid, res)
  /\ UNCHANGED <<pageClosed, ctxClosed, browserClosed, instance, aborted,
                 others>>
  /\ UNCHANGED dvars
  /\ UNCHANGED avars

Call(name, raw, uuid, eng) ==
  Done(name, raw, uuid, call(name, raw, uuid, eng, Mgr))

\* The caller takes the result of its call.
Receive ==
  /\ last # NoOp
  /\ last' = NoOp
  /\ UNCHANGED <<sessions, created, pageDoc, pageClosed, ctxClosed,
                 browserClosed, instance, navigated, aborted, others>>
  /\ UNCHANGED dvars
  /\ UNCHANGED avars

Sids == {None, EmptyStr, NotAStr} \cup SessIds
NoArgs == <<>>

CallNavigate ==
  /\ last = NoOp
  /\ \E sid \in Sids : \E uuid \in Uuids(sid) :
    \/ \E u \in Urls, eng \in NavEng :
         /\ (UrlScheme(u) \notin {"http", "https"})
              => eng \in Unasked(NavEng)
         /\ Call("navigate", Args(sid, [url |-> u]), uuid, eng)
    \/ \E eng \in Unasked(NavEng) :
         Call("navigate", Args(sid, NoArgs), uuid, eng)

CallClick ==
  /\ last = NoOp
  /\ \E sid \in Sids : \E uuid \in Uuids(sid) :
    \/ \E sel \in Selectors, eng \in ClickEng :
         Call("click", Args(sid, [selector |-> sel]), uuid, eng)
    \/ \E eng \in Unasked(ClickEng) :
         Call("click", Args(sid, NoArgs), uuid, eng)

CallFill ==
  /\ last = NoOp
  /\ \E sid \in Sids : \E uuid \in Uuids(sid) :
    \/ \E sel \in Selectors, v \in {"v"}, eng \in FillEng :
         Call("fill", Args(sid, [selector |-> sel, value |-> v]), uuid, eng)
    \/ \E sel \in Selectors, eng \in Unasked(FillEng) :
         Call("fill", Args(sid, [selector |-> sel]), uuid, eng)

CallScreenshot ==
  /\ last = NoOp
  /\ \E sid \in Sids : \E uuid \in Uuids(sid) :
    \/ \E eng \in ShotEng : Call("screenshot", Args(sid, NoArgs), uuid, eng)
    \/ \E m \in {"fullpage", "window"}, eng \in ShotEng :
         /\ (m \notin {"viewport", "fullpage"}) => eng \in Unasked(ShotEng)
         /\ Call("screenshot", Args(sid, [mode |-> m]), uuid, eng)

CallExtractLinks ==
  /\ last = NoOp
  /\ \E sid \in Sids : \E uuid \in Uuids(sid) : \E eng \in ReadEng :
    \/ Call("extract_links", Args(sid, NoArgs), uuid, eng)
    \/ \E f \in {<<>>, <<"z">>, <<"f", "T", "p", ":">>} :
         Call("extract_links", Args(sid, [filter_contains |-> f]), uuid, eng)

CallGetHtml ==
  /\ last = NoOp
  /\ \E sid \in Sids : \E uuid \in Uuids(sid) : \E eng \in ReadEng :
    Call("get_html", Args(sid, NoArgs), uuid, eng)

CallUnknown ==
  /\ last = NoOp
  /\ \E name \in UnknownNames, sid \in Sids : \E uuid \in Uuids(sid) :
       \E eng \in Unasked(ReadEng) : Call(name, Args(sid, NoArgs), uuid, eng)

\* ------------------------------------------------ BrowserManager.shutdown
\* The while loop: popitem takes the entry inserted last; fail.at = k makes
\* the k-th pop's page.close() (fail.where = "page") or context.close()
\* ("context") raise, 0 makes none raise.  A close that raises leaves its
\* target open.
RECURSIVE ReleaseAll(_, _)
ReleaseAll(S, fail) ==
  IF S.sessions = <<>>
    THEN [raised |-> FALSE, S |-> S]
    ELSE
      LET stored == S.sessions[Len(S.sessions)]
          popped == [S EXCEPT
                       !.sessions = SubSeq(@, 1, Len(S.sessions) - 1)]
          pageDone == [popped EXCEPT !.pageClosed = @ \cup {stored.page}]
          ctxDone == [pageDone EXCEPT !.ctxClosed = @ \cup {stored.context}]
      IN IF fail.at = 1 /\ fail.where = "page"
           THEN [raised |-> TRUE, S |-> popped]
         ELSE IF fail.at = 1 /\ fail.where = "context"
           THEN [raised |-> TRUE, S |-> pageDone]
         ELSE ReleaseAll(ctxDone, [fail EXCEPT !.at = @ - 1])


\* Variant: the browser itself is not closed, only marked.
BrowserClose_MarkOnly(S) == [S EXCEPT !.browserClosed = TRUE]

\* browser.close(): the browser closes every context and page it still
\* holds; closing a closed browser is a no-op.
BrowserClose(S) ==
  [S EXCEPT !.browserClosed = TRUE,
            !.pageClosed = 1..S.created,
            !.ctxClosed = 1..S.created]

\* shutdown.  stopRaises: playwright.stop() raises when Playwright was
\* already stopped by an earlier shutdown.
\* The lines after the loop: browser.close(), playwright.stop() and the
\* reset of the class attribute _instance, whichever manager it names.
Stop(loop, closed, stopped, stopRaises) ==
  IF loop.raised THEN loop
  ELSE IF stopped /\ stopRaises THEN [raised |-> TRUE, S |-> closed]
  ELSE [raised |-> FALSE, S |-> [closed EXCEPT !.instance = FALSE]]

shutdown(S, fail, stopRaises) ==
  LET AfterLoop(loop) ==
        Stop(loop, BrowserClose(loop.S), S.browserClosed, stopRaises)
  IN AfterLoop(ReleaseAll(S, fail))

Released(res) ==
  /\ sessions' = res.S.sessions
  /\ pageClosed' = res.S.pageClosed
  /\ ctxClosed' = res.S.ctxClosed
  /\ browserClosed' = res.S.browserClosed
  /\ instance' = res.S.instance
  /\ last' = [NoOp EXCEPT !.name = "shutdown", !.raised = res.raised]
  /\ navigated' = [s \in SessIds |-> NoNav]
  /\ aborted' = (aborted \/ res.raised)
  /\ others' = IF res.raised
                 THEN others
                 ELSE [k \in DOMAIN others |->
                         [others[k] EXCEPT !.instance = FALSE]]
  /\ UNCHANGED <<created, pageDoc>>
  /\ UNCHANGED dvars
  /\ UNCHANGED avars

\* shutdown of the manager of the service in use (a service's tools keep
\* their manager, and atexit keeps its shutdown, whatever _instance names).
Shutdown ==
  /\ last = NoOp
  /\ \E at \in 0..Len(sessions), where \in {"page", "context"},
        stopRaises \in BOOLEAN :
       /\ (at = 0) => where = "page"
       /\ stopRaises => browserClosed
       /\ Released(shutdown([sessions |-> sessions, created |-> created,
                             pageClosed |-> pageClosed,
                             ctxClosed |-> ctxClosed,
                             browserClosed |-> browserClosed,
                             instance |-> instance],
                            [at |-> at, where |-> where], stopRaises))

\* BrowserManager.get(), as build_tools calls it when a client constructs a
\* ToolService, the client going on with the service constructed: its tools
\* are bound to the manager _instance names or, when _instance is None, to
\* a new manager with a browser of its own, no session and no context,
\* which _instance names from then on.  The services constructed before
\* stay bound to their managers, whatever state those are in.  The number
\* of managers one run creates is capped at MaxManagers.
Get ==
  /\ last = NoOp
  /\ LET held ==
           [sessions |-> sessions, created |-> created, pageDoc |-> pageDoc,
            pageClosed |-> pageClosed, ctxClosed |-> ctxClosed,
            browserClosed |-> browserClosed, instance |-> instance,
            navigated |-> navigated, aborted |-> aborted]
         new ==
           [sessions |-> <<>>, created |-> 0, pageDoc |-> <<>>,
            pageClosed |-> {}, ctxClosed |-> {}, browserClosed |-> FALSE,
            instance |-> TRUE, navigated |-> [s \in SessIds |-> NoNav],
            aborted |-> FALSE]
         Bind(M, rest) ==
           /\ sessions' = M.sessions
           /\ created' = M.created
           /\ pageDoc' = M.pageDoc
           /\ pageClosed' = M.pageClosed
           /\ ctxClosed' = M.ctxClosed
           /\ browserClosed' = M.browserClosed
           /\ instance' = M.instance
           /\ navigated' = M.navigated
           /\ aborted' = M.aborted
           /\ others' = rest
     IN IF instance
          THEN Bind(held, others)
        ELSE IF \E k \in DOMAIN others : others[k].instance
          THEN \E k \in DOMAIN others :
                 /\ others[k].instance
                 /\ Bind(others[k], [others EXCEPT ![k] = held])
        ELSE /\ Len(others) + 1 < MaxManagers
             /\ Bind(new, Append(others, held))
  /\ last' = [NoOp EXCEPT !.name = "get"]
  /\ UNCHANGED dvars
  /\ UNCHANGED avars

\* The client turns to another of the services it holds: a ToolService
\* keeps the tools build_tools made for it, each bound to the manager get()
\* gave at that time, so its next operations act on that manager.
Turn ==
  /\ last = NoOp
  /\ \E k \in DOMAIN others :
       /\ sessions' = others[k].sessions
       /\ created' = others[k].created
       /\ pageDoc' = others[k].pageDoc
       /\ pageClosed' = others[k].pageClosed
       /\ ctxClosed' = others[k].ctxClosed
       /\ browserClosed' = others[k].browserClosed
       /\ instance' = others[k].instance
       /\ navigated' = others[k].navigated
       /\ aborted' = others[k].aborted
       /\ others' =
            [others EXCEPT ![k] =
               [sessions |-> sessions, created |-> created,
                pageDoc |-> pageDoc, pageClosed |-> pageClosed,
                ctxClosed |-> ctxClosed, browserClosed |-> browserClosed,
                instance |-> instance, navigated |-> navigated,
                aborted |-> aborted]]
  /\ last' = [NoOp EXCEPT !.name = "turn"]
  /\ UNCHANGED dvars
  /\ UNCHANGED avars

Next ==
  \/ CallNavigate
  \/ CallScreenshot
  \/ CallExtractLinks
  \/ CallFill
  \/ CallClick
  \/ CallGetHtml
  \/ CallUnknown
  \/ Shutdown
  \/ Get
  \/ Turn
  \/ Receive

Spec == Init /\ [][Next]_vars

TypeOK ==
  /\ Len(sessions) <= MaxSessions
  /\ created \in 0..MaxSessions
  /\ DOMAIN pageDoc = 1..created
  /\ \A p \in 1..created : pageDoc[p] \in {Blank, ErrorDoc} \cup Urls
  /\ pageClosed \subseteq 1..created
  /\ ctxClosed \subseteq 1..created
  /\ last.raised \in BOOLEAN
  /\ Len(others) < MaxManagers
  /\ \A k \in DOMAIN others :
       /\ others[k].created \in 0..MaxSessions
       /\ Len(others[k].sessions) <= others[k].created
       /\ others[k].instance => ~instance

\* ------------------------------------------------- MCPServer.serve_forever
\* The lines a client sends.
Json(doc) == [form |-> "json", doc |-> doc]

\* MCPServer() and the start of serve_forever on some input.
DispatchInit ==
  LET OnSession == [session_id |-> <<"sess", 1>>]
      CallLine(id, params) ==
        Json([id |-> id, method |-> "tools/call", params |-> params])
      Lines ==
        { [form |-> "blank"],
          [form |-> "text"],
          Json([id |-> <<"int", 1>>]),
          Json([id |-> <<"int", 1>>, method |-> "initialize"]),
          Json([id |-> <<"int", 2>>, method |-> "tools/list"]),
          Json([method |-> "resources/list"]),
          CallLine(<<"int", 1>>,
                   [name |-> "get_html", arguments |-> OnSession]),
          CallLine(<<"int", 2>>, [name |-> "click", arguments |-> OnSession]),
          CallLine(<<"int", 2>>, [arguments |-> OnSession]) }
  IN
  /\ ManagerInit
  /\ stdin \in UNION {[1..n -> Lines] : n \in 0..MaxLines}
  /\ pos = 0
  /\ stdout = [lines |-> <<>>, flushed |-> 0]
  /\ dpc = "read"
  /\ cur = [form |-> "none"]
  /\ disp = [raised |-> FALSE, ran |-> FALSE]
  /\ AgentOff

\* for raw_line in sys.stdin: the next line, skipped when blank.
ReadLine ==
  /\ dpc = "read"
  /\ pos < Len(stdin)
  /\ pos' = pos + 1
  /\ IF IsBlank(stdin[pos + 1])
       THEN UNCHANGED <<dpc, cur>>
       ELSE dpc' = "dispatch" /\ cur' = stdin[pos + 1]
  /\ UNCHANGED <<stdin, stdout, disp>>
  /\ UNCHANGED vars
  /\ UNCHANGED avars

\* The input stream is exhausted: serve_forever returns.
EndOfInput ==
  /\ dpc = "read"
  /\ pos = Len(stdin)
  /\ dpc' = "done"
  /\ UNCHANGED <<stdin, pos, stdout, cur, disp>>
  /\ UNCHANGED vars
  /\ UNCHANGED avars

\* response_line = self._dispatch(line), with the identifier the service
\* would mint and the engine's answers for the call the line asks for.
Dispatch ==
  /\ dpc = "dispatch"
  /\ \E uuid \in Uuids(SidOf(IF /\ MCPRequestValid(cur)
                                /\ "params" \in DOMAIN cur.doc
                               THEN ArgumentsOf(cur.doc.params)
                               ELSE EmptyDict)),
        eng \in (IF /\ MCPRequestValid(cur)
                    /\ cur.doc.method = "tools/call"
                    /\ "params" \in DOMAIN cur.doc
                    /\ "name" \in DOMAIN cur.doc.params
                    /\ cur.doc.params.name = "get_html"
                   THEN ReadEng
                   ELSE Unasked(ReadEng)) :
       \E d \in {dispatch(cur, uuid, eng, Mgr)} :
         /\ d.M.created <= MaxSessions
         /\ sessions' = d.M.sessions
         /\ created' = d.M.created
         /\ pageDoc' = d.M.pageDoc
         /\ disp' = [f \in DOMAIN d \ {"M"} |-> d[f]]
         /\ dpc' = IF d.raised THEN "crashed" ELSE "write"
  /\ UNCHANGED <<stdin, pos, stdout, cur>>
  /\ UNCHANGED <<pageClosed, ctxClosed, browserClosed, instance, last,
                 navigated, aborted, others>>
  /\ UNCHANGED avars

\* sys.stdout.write(response_line + "\n"); sys.stdout.flush()
WriteLine ==
  /\ dpc = "write"
  /\ stdout' = Emit(stdout, disp.line)
  /\ dpc' = "read"
  /\ cur' = [form |-> "none"]
  /\ disp' = [raised |-> FALSE, ran |-> FALSE]
  /\ UNCHANGED <<stdin, pos>>
  /\ UNCHANGED vars
  /\ UNCHANGED avars

DispatchNext ==
  \/ ReadLine
  \/ Dispatch
  \/ WriteLine
  \/ EndOfInput

DispatchSpec == DispatchInit /\ [][DispatchNext]_<<vars, dvars>>

\* ---------------------------------------------------- ScrapingAgent.scrape
\* The jobs: url, schema, interactions and options of the configuration.
InteractionLists ==
  LET Interactions ==
        { [type |-> "click", selector |-> "#next"],
          [type |-> "fill", selector |-> "#next", value |-> "v"],
          [type |-> "wait", duration |-> 0] }
  IN UNION {[1..n -> Interactions] : n \in 0..MaxInteractions}

\* config.options.get(key, default)
max_pages ==
  IF "max_pages" \in DOMAIN config.options THEN config.options.max_pages
  ELSE 1

\* Variant: pagination is on unless the options turn it off.
pagination_enabled_DefaultOn ==
  IF "pagination" \in DOMAIN config.options THEN config.options.pagination
  ELSE TRUE

pagination_enabled ==
  IF "pagination" \in DOMAIN config.options THEN config.options.pagination
  ELSE FALSE


\* Target schemas: a scalar key, the array key and a metadata section; no
\* list at all; an empty list before the array key; only an empty list; the
\* array key named "metadata"; the array key "".
Schemas ==
  LET shape == JObj(<<Pair("name", JStr(<<"s">>)),
                      Pair("price", JStr(<<"n">>))>>)
  IN { JObj(<<Pair("source", JStr(<<"s">>)),
              Pair("produits", JList(<<shape>>)),
              Pair("metadata", JObj(<<>>))>>),
       JObj(<<Pair("name", JStr(<<"s">>))>>),
       JObj(<<Pair("tags", JList(<<>>)), Pair("links", JList(<<shape>>))>>),
       JObj(<<Pair("tags", JList(<<>>))>>),
       JObj(<<Pair("metadata", JList(<<shape>>))>>),
       JObj(<<Pair("", JList(<<shape>>))>>) }

\* What the completion service answers to an extraction prompt.
ExtractReplies ==
  LET ItemA == JObj(<<Pair("name", JStr(<<"a">>)), Pair("price", JNum(1))>>)
      ItemB == JObj(<<Pair("name", JStr(<<>>)), Pair("price", JNull)>>)
  IN { [form |-> "raise"],
       [form |-> "prose"],
       [form |-> "broken"],
       Json(JObj(<<Pair("items", JList(<<ItemA, ItemB>>))>>)),
       Json(JObj(<<Pair("items", JList(<<>>))>>)),
       Json(JObj(<<Pair("items", JNull)>>)),
       Json(JObj(<<Pair("items", JNum(5))>>)),
       Json(JObj(<<Pair("items", JStr(<<"n", "o">>))>>)),
       Json(JObj(<<Pair("count", JNum(1)),
                   Pair("produits", JList(<<ItemB>>))>>)),
       Json(ItemA) }

ApiError == <<"Connection error.">>

\* A fresh agent on a fresh service starts scrape(config).  Each option is
\* given or left out; max_pages may be any integer.  The schema is one of
\* those with a metadata section.
AgentInit ==
  /\ ManagerInit
  /\ DispatcherOff
  /\ \E url \in Urls, schema \in {s \in Schemas : HasKey(s, "metadata")},
        interactions \in InteractionLists,
        budget \in {[given |-> FALSE]}
                     \cup {[given |-> TRUE, v |-> n] : n \in (-1)..MaxPages},
        pagination \in {[given |-> FALSE]}
                         \cup {[given |-> TRUE, v |-> b] : b \in BOOLEAN} :
       config = [url |-> url, schema |-> schema,
                 interactions |-> interactions,
                 options |->
                   (IF budget.given THEN [max_pages |-> budget.v]
                    ELSE EmptyDict)
                   @@ (IF pagination.given
                         THEN [pagination |-> pagination.v]
                       ELSE EmptyDict)]
  /\ apc = "navigate"
  /\ self_session_id = None
  /\ interacted = 0
  /\ page_count = 0
  /\ all_extracted_data = <<>>
  /\ html_content = <<>>
  /\ selector = ""
  /\ extraction_result = [status |-> ""]
  /\ log = <<>>
  /\ cli = [pc |-> "off"]

\* The service after a capability call of the job.
Manager(M) ==
  /\ M.created <= MaxSessions
  /\ sessions' = M.sessions
  /\ created' = M.created
  /\ pageDoc' = M.pageDoc
  /\ UNCHANGED <<pageClosed, ctxClosed, browserClosed, instance, last,
                 navigated, aborted, others>>
  /\ UNCHANGED dvars
  /\ UNCHANGED cli

Logged(step, op, sid, ok) ==
  log' = Append(log, [step |-> step, op |-> op, sid |-> sid, ok |-> ok])

\* Variant: the error is noted and the job goes on to structure what it
\* has.
Fails_GoesOn(message) ==
  /\ extraction_result' = ErrorResult(message, all_extracted_data)
  /\ apc' = "structure"

\* except Exception as e: the job returns the error result.
Fails(message) ==
  /\ extraction_result' = ErrorResult(message, all_extracted_data)
  /\ apc' = "done"

\* Variant: an agent that has a session keeps it.
AfterNavigate_KeepsSession(t) ==
  /\ Manager(t.M)
  /\ Logged("navigate", "navigate", None, t.kind = "return")
  /\ IF t.kind = "return"
       THEN /\ self_session_id' = IF self_session_id = None
                                    THEN t.session_id ELSE self_session_id
            /\ apc' = IF Len(config.interactions) > 0 THEN "interact"
                      ELSE "loop"
            /\ UNCHANGED extraction_result
       ELSE /\ Fails(StrOf(t))
            /\ UNCHANGED self_session_id
  /\ UNCHANGED <<config, interacted, page_count, all_extracted_data,
                 html_content, selector>>

\* Step 1: self._navigate(config.url)
AfterNavigate(t) ==
  /\ Manager(t.M)
  /\ Logged("navigate", "navigate", None, t.kind = "return")
  /\ IF t.kind = "return"
       THEN /\ self_session_id' = t.session_id
            /\ apc' = IF Len(config.interactions) > 0 THEN "interact"
                      ELSE "loop"
            /\ UNCHANGED extraction_result
       ELSE /\ Fails(StrOf(t))
            /\ UNCHANGED self_session_id
  /\ UNCHANGED <<config, interacted, page_count, all_extracted_data,
                 html_content, selector>>

Navigate ==
  /\ apc = "navigate"
  /\ \E uuid \in Uuids(None), eng \in NavEng :
       \E t \in {call_tool(call("navigate", [url |-> config.url],
                                uuid, eng, Mgr))} :
         AfterNavigate(t)

\* Step 2: _execute_interactions, one interaction of the list at a time.


\* Variant: a failed interaction is not caught.
Tolerated_None(t) == t.kind = "return"

\* except ToolError: the failure is logged and the loop goes on.
Tolerated(t) == t.kind \in {"return", "ToolError"}

AfterInteraction(op, t) ==
  /\ Manager(t.M)
  /\ Logged("interact", op, self_session_id, t.kind = "return")
  /\ IF Tolerated(t)
       THEN /\ interacted' = interacted + 1
            /\ apc' = IF interacted + 1 = Len(config.interactions)
                        THEN "loop" ELSE "interact"
            /\ UNCHANGED extraction_result
       ELSE /\ Fails(StrOf(t))
            /\ UNCHANGED interacted
  /\ UNCHANGED <<config, self_session_id, page_count, all_extracted_data,
                 html_content, selector>>

InteractClick ==
  /\ apc = "interact"
  /\ \E interaction \in {config.interactions[interacted + 1]} :
       /\ interaction.type = "click"
       /\ \E uuid \in Uuids(self_session_id), eng \in ClickEng :
            \E t \in {call_tool(call("click",
                                     [session_id |-> self_session_id,
                                      selector |-> interaction.selector],
                                     uuid, eng, Mgr))} :
              AfterInteraction("click", t)

InteractFill ==
  /\ apc = "interact"
  /\ \E interaction \in {config.interactions[interacted + 1]} :
       /\ interaction.type = "fill"
       /\ \E uuid \in Uuids(self_session_id), eng \in FillEng :
            \E t \in {call_tool(call("fill",
                                     [session_id |-> self_session_id,
                                      selector |-> interaction.selector,
                                      value |-> interaction.value],
                                     uuid, eng, Mgr))} :
              AfterInteraction("fill", t)

\* wait sleeps, scroll is skipped, any other type is passed over.
InteractOther ==
  /\ apc = "interact"
  /\ \E interaction \in {config.interactions[interacted + 1]} :
       /\ interaction.type \notin {"click", "fill"}
       /\ Logged("interact", interaction.type, None, TRUE)
  /\ interacted' = interacted + 1
  /\ apc' = IF interacted + 1 = Len(config.interactions) THEN "loop"
            ELSE "interact"
  /\ UNCHANGED <<config, self_session_id, page_count, all_extracted_data,
                 html_content, selector, extraction_result>>
  /\ UNCHANGED vars
  /\ UNCHANGED dvars
  /\ UNCHANGED cli

\* Step 3, the head of the loop.

\* Variant: the loop runs while page_count <= max_pages.
LoopTest_Inclusive(count, budget) == count <= budget

\* while page_count < max_pages
LoopTest(count, budget) == count < budget

AfterGetHtml(t) ==
  /\ Manager(t.M)
  /\ Logged("loop", "get_html", self_session_id, t.kind = "return")
  /\ page_count' = page_count + 1
  /\ IF t.kind = "return"
       THEN /\ html_content' = t.data.html
            /\ apc' = "extract"
            /\ UNCHANGED extraction_result
       ELSE /\ Fails(StrOf(t))
            /\ UNCHANGED html_content
  /\ UNCHANGED <<config, self_session_id, interacted, all_extracted_data,
                 selector>>

GetHtml ==
  /\ apc = "loop"
  /\ LoopTest(page_count, max_pages)
  /\ \E uuid \in Uuids(self_session_id), eng \in ReadEng :
       \E t \in {call_tool(call("get_html",
                                [session_id |-> self_session_id],
                                uuid, eng, Mgr))} :
         AfterGetHtml(t)

\* The loop's condition is false: on to step 4.
LoopEnds ==
  /\ apc = "loop"
  /\ ~LoopTest(page_count, max_pages)
  /\ apc' = "structure"
  /\ UNCHANGED <<config, self_session_id, interacted, page_count,
                 all_extracted_data, html_content, selector,
                 extraction_result, log>>
  /\ UNCHANGED vars
  /\ UNCHANGED dvars
  /\ UNCHANGED cli

\* Variant: the next page is looked for whenever pagination is enabled.
ProbesNext_WhileEnabled(enabled, count, budget) == enabled

\* if pagination_enabled and page_count < max_pages
ProbesNext(enabled, count, budget) == enabled /\ count < budget

\* _extract_with_llm and lines 112-122.
\* The history keeps what _extract_with_llm returned as page_data.
AfterExtract(raises, page_data, e) ==
  /\ log' = Append(log, [step |-> "extract", op |-> "completion",
                         sid |-> None, ok |-> ~raises,
                         page_data |-> page_data])
  /\ IF e.kind = "return"
       THEN /\ all_extracted_data' = e.items
            /\ apc' = IF ProbesNext(pagination_enabled, page_count,
                                    max_pages)
                        THEN "paginate" ELSE "structure"
            /\ UNCHANGED extraction_result
       ELSE /\ Fails(e.message)
            /\ UNCHANGED all_extracted_data
  /\ UNCHANGED <<config, self_session_id, interacted, page_count,
                 html_content, selector>>
  /\ UNCHANGED vars
  /\ UNCHANGED dvars
  /\ UNCHANGED cli

Extract ==
  /\ apc = "extract"
  /\ \E reply \in ExtractReplies :
       IF reply.form = "raise"
         THEN AfterExtract(TRUE, JNull,
                           [kind |-> "Exception", message |-> ApiError])
         ELSE AfterExtract(FALSE, parse_llm_response(reply),
                           Extend(all_extracted_data,
                                  parse_llm_response(reply)))

\* _navigate_to_next_page up to line 377: the probe.  The replies are what
\* the completion service answers to a pagination prompt: a selector plain,
\* in a fence on a line of its own, in a fence on one line with it, after
\* a fence that is closed on the selector's line; the sentinel plain and in
\* backticks; nothing.
Probe ==
  /\ apc = "paginate"
  /\ \E reply \in
        LET ProbeReply(raises, content) ==
              [raises |-> raises, content |-> content]
        IN { ProbeReply(TRUE, <<>>),
             ProbeReply(FALSE, <<"#next">>),
             ProbeReply(FALSE, <<"'''", "css", "\n", "#next", "\n", "'''">>),
             ProbeReply(FALSE, <<"'''", "#next", "'''">>),
             ProbeReply(FALSE, <<"'''", "\n", "#next", "'''">>),
             ProbeReply(FALSE, <<"NO_PAGINATION", "\n">>),
             ProbeReply(FALSE, <<"'", "NO_PAGINATION", "'">>),
             ProbeReply(FALSE, <<>>) } :
       /\ Logged("paginate", "completion", None, ~reply.raises)
       /\ IF reply.raises
            THEN Fails(ApiError) /\ UNCHANGED selector
            ELSE /\ selector' = CleanSelector(reply.content)
                 /\ apc' = IF NoNextPage(CleanSelector(reply.content))
                             THEN "structure" ELSE "click"
                 /\ UNCHANGED extraction_result
  /\ UNCHANGED <<config, self_session_id, interacted, page_count,
                 all_extracted_data, html_content>>
  /\ UNCHANGED vars
  /\ UNCHANGED dvars
  /\ UNCHANGED cli

\* _navigate_to_next_page, lines 381-398: TRUE after a click, FALSE after a
\* ToolError of any code.

\* Variant: a ToolError other than not visible / not clickable is let out.
HasNext_Strict(t) ==
  IF t.kind = "return" THEN "yes"
  ELSE IF /\ t.kind = "ToolError"
          /\ t.code \in {"ELEMENT_NOT_VISIBLE", "ELEMENT_NOT_CLICKABLE"}
    THEN "no"
  ELSE "raise"

HasNext(t) ==
  IF t.kind = "return" THEN "yes"
  ELSE IF t.kind = "ToolError" THEN "no"
  ELSE "raise"

AfterNextClick(t) ==
  /\ Manager(t.M)
  /\ Logged("paginate", "click", self_session_id, t.kind = "return")
  /\ IF HasNext(t) = "raise"
       THEN Fails(StrOf(t))
       ELSE /\ apc' = IF HasNext(t) = "yes" THEN "loop" ELSE "structure"
            /\ UNCHANGED extraction_result
  /\ UNCHANGED <<config, self_session_id, interacted, page_count,
                 all_extracted_data, html_content, selector>>

NextClick ==
  /\ apc = "click"
  /\ \E uuid \in Uuids(self_session_id), eng \in ClickEng :
       \E t \in {call_tool(call("click",
                                [session_id |-> self_session_id,
                                 selector |-> selector],
                                uuid, eng, Mgr))} :
         AfterNextClick(t)

\* scrape, lines 124-134: structure, report, return.
Structure ==
  /\ apc = "structure"
  /\ \E data \in {structure_data(all_extracted_data, config.schema)} :
       extraction_result' = SuccessResult(data, generate_quality_report(data))
  /\ apc' = "done"
  /\ UNCHANGED <<config, self_session_id, interacted, page_count,
                 all_extracted_data, html_content, selector, log>>
  /\ UNCHANGED vars
  /\ UNCHANGED dvars
  /\ UNCHANGED cli

AgentNext ==
  \/ Navigate
  \/ InteractClick
  \/ InteractFill
  \/ InteractOther
  \/ GetHtml
  \/ LoopEnds
  \/ Extract
  \/ Probe
  \/ NextClick
  \/ Structure

AgentSpec == AgentInit /\ [][AgentNext]_<<vars, dvars, avars>>

\* ------------------------------------------------ several jobs, one agent
\* scraping_cli.py and the demos build one agent on one service and may call
\* scrape again when a job has returned.  The configurations of these jobs:
\* either URL, no interaction or one, a budget of 0 to MaxJobPages pages,
\* pagination on or off.
JobConfigs ==
  LET schema == CHOOSE s \in Schemas : HasKey(s, "produits")
  IN {[url |-> url, schema |-> schema, interactions |-> interactions,
       options |-> [max_pages |-> budget, pagination |-> pagination]] :
        url \in Urls,
        interactions \in {l \in InteractionLists : Len(l) <= 1},
        budget \in 0..MaxJobPages, pagination \in BOOLEAN}

JobsInit ==
  /\ ManagerInit
  /\ DispatcherOff
  /\ config \in JobConfigs
  /\ apc = "navigate"
  /\ self_session_id = None
  /\ interacted = 0
  /\ page_count = 0
  /\ all_extracted_data = <<>>
  /\ html_content = <<>>
  /\ selector = ""
  /\ extraction_result = [status |-> ""]
  /\ log = <<>>
  /\ cli = [pc |-> "off"]

\* scrape is called again on the agent: its locals are new (lines 96-97),
\* self.session_id is what the job before left.  The number of
\* contexts one run creates is capped at MaxSessions.
StartJob ==
  /\ apc = "done"
  /\ created < MaxSessions
  /\ config' \in JobConfigs
  /\ apc' = "navigate"
  /\ interacted' = 0
  /\ page_count' = 0
  /\ all_extracted_data' = <<>>
  /\ html_content' = <<>>
  /\ selector' = ""
  /\ extraction_result' = [status |-> ""]
  /\ log' = <<>>
  /\ UNCHANGED self_session_id
  /\ UNCHANGED vars
  /\ UNCHANGED dvars
  /\ UNCHANGED cli

JobsNext ==
  \/ AgentNext
  \/ StartJob

JobsSpec == JobsInit /\ [][JobsNext]_<<vars, dvars, avars>>

\* ------------------------------------------------------- scraping_cli.py
\* The batch entry point is started with --api-key given or not, with
\* OPENAI_API_KEY set or not, and with a --config file that is missing, is
\* not JSON, holds a JSON list, or holds a JSON object: an empty one or one
\* of the configurations above.  Nothing is running yet and no result file
\* exists.
CliInit ==
  /\ ManagerInit
  /\ DispatcherOff
  /\ \E api_key \in {None, EmptyStr, <<"str", 1>>},
        env_key \in {None, EmptyStr, <<"str", 2>>},
        config_file \in {[form |-> "missing"], [form |-> "text"],
                         [form |-> "list"],
                         [form |-> "object", doc |-> EmptyDict]}
                          \cup {[form |-> "object", doc |-> c] :
                                  c \in JobConfigs} :
       cli = [pc |-> "main", api_key |-> api_key, env_key |-> env_key,
              config_file |-> config_file, exit_code |-> None,
              raised |-> "", line |-> 0, output |-> Absent]
  /\ config = [url |-> ""]
  /\ apc = "off"
  /\ self_session_id = None
  /\ interacted = 0
  /\ page_count = 0
  /\ all_extracted_data = <<>>
  /\ html_content = <<>>
  /\ selector = ""
  /\ extraction_result = [status |-> ""]
  /\ log = <<>>

\* main, lines 103-164.  Without a key it exits with 1 (line 108); a
\* configuration file that is missing, is not JSON or makes
\* load_config_from_file raise anything else (a list has no get) exits with
\* 1 (lines 115, 118, 121).  Otherwise line 125 calls build_tools, a name
\* the module neither defines nor imports: the NameError is not caught, the
\* interpreter prints the traceback and exits with 1.  Lines 126-164 (the
\* agent, the job, the result file, the exits 0 and 1 on the job's status)
\* are not reached.
main ==
  /\ cli.pc = "main"
  /\ LET key == IF Truthy(cli.api_key) THEN cli.api_key ELSE cli.env_key
         exits(line, exception) ==
           cli' = [cli EXCEPT !.pc = "exited", !.exit_code = 1,
                              !.raised = exception, !.line = line]
     IN IF ~Truthy(key) THEN exits(108, "SystemExit")
        ELSE IF cli.config_file.form = "missing"
          THEN exits(115, "SystemExit")
        ELSE IF cli.config_file.form = "text" THEN exits(118, "SystemExit")
        ELSE IF cli.config_file.form = "list" THEN exits(121, "SystemExit")
        ELSE exits(125, "NameError")
  /\ UNCHANGED <<config, apc, self_session_id, interacted, page_count,
                 all_extracted_data, html_content, selector,
                 extraction_result, log>>
  /\ UNCHANGED vars
  /\ UNCHANGED dvars

CliNext == main

CliSpec == CliInit /\ [][CliNext]_<<vars, dvars, avars>>

\* ------------------------------------------- structuring and the analysis
\* scrape has left its page loop (line 123) with all_extracted_data, under
\* one of the schemas.  The items are as the extraction passes leave them:
\* mappings with every field filled, with empty and null fields, with a
\* missing field inside a mapping and inside the mappings of a list, with
\* empty and null elements of a list, with falsy values that are not
\* missing, with the empty key; a list and a string.  A long list has
\* complete items first,
\* then items with missing fields, and comes under the schema of products;
\* so do the lists whose rate lies half-way between two thousandths (1 and
\* 3 complete items of 16, 1 of 80).
AnalyzeInit ==
  LET name == Pair("name", JStr(<<"a">>))
      offer(p) == JObj(<<Pair("p", p)>>)
      ExtractedItems ==
        { JObj(<<name, Pair("price", JNum(1))>>),
          JObj(<<Pair("name", JStr(<<>>)), Pair("price", JNull)>>),
          JObj(<<name, Pair("seller", JObj(<<Pair("city", JStr(<<>>))>>))>>),
          JObj(<<name,
                 Pair("offers", JList(<<offer(JNull), offer(JNull)>>))>>),
          JObj(<<name, Pair("offers", JList(<<offer(JNum(1))>>)),
                 Pair("seller", JObj(<<Pair("city", JStr(<<"x">>))>>))>>),
          JObj(<<name, Pair("tags", JList(<<JStr(<<>>), JNull>>))>>),
          JObj(<<Pair("count", JNum(0)), Pair("tags", JList(<<>>)),
                 Pair("seller", JObj(<<>>))>>),
          JList(<<JObj(<<Pair("name", JStr(<<>>))>>)>>),
          JObj(<<Pair("", JObj(<<Pair("name", JNull)>>))>>),
          JStr(<<"n">>) }
      LongList(total, complete) ==
        [i \in 1..total |->
           IF i <= complete
             THEN JObj(<<name, Pair("price", JNum(1))>>)
             ELSE JObj(<<Pair("name", JStr(<<>>)), Pair("price", JNull)>>)]
  IN /\ ManagerInit
     /\ DispatcherOff
     /\ \E schema \in Schemas :
          config = [url |-> "http://a.test/", schema |-> schema,
                    interactions |-> <<>>, options |-> EmptyDict]
     /\ apc = "structure"
     /\ self_session_id = None
     /\ interacted = 0
     /\ page_count = 1
     /\ all_extracted_data \in
          UNION {[1..n -> ExtractedItems] : n \in 0..MaxItems}
            \cup (IF HasKey(config.schema, "produits")
                    THEN {LongList(LongPage, LongPage \div 4 + 1),
                          LongList(LongPage, LongPage \div 2 + 1),
                          LongList(16, 1), LongList(16, 3), LongList(80, 1)}
                    ELSE {})
     /\ html_content = <<>>
     /\ selector = ""
     /\ extraction_result = [status |-> ""]
     /\ log = <<>>
     /\ cli = [pc |-> "off"]

AnalyzeNext == Structure

AnalyzeSpec == AnalyzeInit /\ [][AnalyzeNext]_<<vars, dvars, avars>>

\* ================================================================ claims
\* The last operation was a ToolService.call of a registered capability.
IsToolCall == last.name \in Tools
\* The last operation was a ToolService.call, registered name or not.
IsCall == last.name \in Tools \cup UnknownNames
\* The run of the last call got as far as BrowserManager.session.
Resolved(l) ==
  l.ran /\ ~(l.run.kind = "ToolError" /\ l.run.details # NoDetails)
\* str(exc) or "Internal error"
Shown(message) == IF message = <<>> THEN <<"Internal error">> ELSE message

\* C1 (as stated): call never raises; whatever the run does (return, a
\* ToolError, any other exception) the caller gets an envelope, and for an
\* exception that is not a ToolError the envelope has ok = false, code
\* INTERNAL_ERROR and the exception's message.
C1_Original ==
  IsToolCall =>
    /\ ~last.raised
    /\ "ok" \in DOMAIN last.env /\ "tool" \in DOMAIN last.env
    /\ last.run.kind = "Exception" =>
         /\ last.env.ok = FALSE
         /\ last.env.error.code = "INTERNAL_ERROR"
         /\ last.env.error.message = last.run.message

\* C1 (amended): as above, but the envelope carries the exception's message
\* only when that message is not empty; an exception whose message is empty
\* is reported with the message "Internal error".
C1_NeverRaises ==
  IsToolCall =>
    /\ ~last.raised
    /\ "ok" \in DOMAIN last.env /\ "tool" \in DOMAIN last.env
    /\ last.run.kind = "Exception" =>
         /\ last.env.ok = FALSE
         /\ last.env.error.code = "INTERNAL_ERROR"
         /\ last.env.error.message = Shown(last.run.message)

\* A capability let an exception with an empty message escape and the
\* caller still got an envelope.
C1_Witness ==
  /\ IsToolCall /\ ~last.raised
  /\ last.run.kind = "Exception" /\ last.run.message = <<>>
  /\ last.env.error.message = <<"Internal error">>

\* C2: every envelope call returns has exactly one of data and error:
\* data and no error when ok, error and no data when not ok.
C2_ExactlyOne ==
  (IsCall /\ ~last.raised) =>
    /\ last.env.ok =>
         "data" \in DOMAIN last.env /\ "error" \notin DOMAIN last.env
    /\ ~last.env.ok =>
         "error" \in DOMAIN last.env /\ "data" \notin DOMAIN last.env

\* A call failed on an exception that is not a ToolError and the envelope
\* has an error and no data.
C2_Witness ==
  /\ IsToolCall /\ last.run.kind = "Exception" /\ last.run.message # <<>>
  /\ DOMAIN last.env = {"ok", "tool", "error", "meta"}

\* The step made an identifier for a call that gave none, and uuid4 gave it
\* one that was a key of the mapping.
Repeats == ~Truthy(last'.sid) /\ last'.run.minted \in Keys(sessions)

\* Every entry of the mapping ss is an entry of the mapping tt.
Kept(ss, tt) ==
  \A i \in 1..Len(ss) : \E j \in 1..Len(tt) : tt[j] = ss[i]

\* The step is a call, or the taking of a result: the manager in use keeps
\* the entries of its mapping and the other managers keep their mappings.
StableInUse ==
  /\ Kept(sessions, sessions')
  /\ DOMAIN others' = DOMAIN others
  /\ \A k \in DOMAIN others : others'[k].sessions = others[k].sessions

\* The step is the construction of a service or the client's turn to
\* another service: each manager there was has the mapping it had, the one
\* that comes into use included, and a manager the step built has none.
StableHeld ==
  \/ sessions' = sessions /\ others' = others
  \/ \E k \in DOMAIN others' :
       /\ others'[k].sessions = sessions
       /\ \A j \in DOMAIN others \ {k} :
            others'[j].sessions = others[j].sessions
       /\ sessions' = IF k \in DOMAIN others
                        THEN others[k].sessions
                        ELSE <<>>

\* C3: no operation other than shutdown removes an entry of a manager's
\* session mapping or binds a known identifier to another page, uuid4
\* giving a call without identifier none that is in use.
C3_SessionStable ==
  [][(last'.name # "shutdown" /\ ~Repeats) =>
       IF last'.name \in {"get", "turn"}
         THEN StableHeld
         ELSE StableInUse]_vars

\* The same for every identifier uuid4 can give: session does not look
\* whether the one it makes is in use, and a step in which uuid4 repeats a
\* key binds that key to a new page.
C3_UuidRepeats ==
  [][last'.name \notin {"shutdown", "get", "turn"} => StableInUse]_vars

\* Two sessions are in the mapping and the last call was served on the
\* page of one of them, which it named.
C3_Witness ==
  /\ IsToolCall /\ last.run.kind = "return" /\ last.run.minted = None
  /\ Len(sessions) >= 2
  /\ last.sid \in Keys(sessions)

\* C4: a get_html that names session s, after a successful navigate of s and
\* no call since that acted on the page of s, returns the markup of the page
\* s navigated to, in session s, whatever was called on other sessions
\* (none of which bound s to another page).
C4_Continuity ==
  (last.name = "get_html" /\ last.env.ok /\ last.sid \in SessIds
     /\ navigated[last.sid] # NoNav) =>
    /\ last.env.session_id = last.sid
    /\ last.env.data.html = Markup(navigated[last.sid].doc)

\* The get_html came after calls on another session.
C4_Witness ==
  /\ last.name = "get_html" /\ last.env.ok /\ last.sid \in SessIds
  /\ navigated[last.sid] # NoNav /\ navigated[last.sid].interleaved
  /\ last.env.data.html # Markup(Blank)

\* The last step was a call whose run asked an open browser's manager for
\* the session of an identifier that is absent, empty or not in the mapping.
MintStep ==
  /\ last'.name \in Tools /\ Resolved(last')
  /\ ~browserClosed
  /\ ~(Truthy(last'.sid) /\ last'.sid \in Keys(sessions))

\* The step bound an identifier to a context and a page that did not exist
\* before and that no other entry has, and kept the other entries.  The
\* entry is added at the end when the identifier was not a key.
FreshPage ==
  LET id == last'.run.minted
      entry == Lookup(sessions', id)
  IN /\ id \in Keys(sessions')
     /\ entry.page \notin 1..created /\ entry.page \in 1..created'
     /\ entry.context \notin 1..created /\ entry.context \in 1..created'
     /\ \A j \in 1..Len(sessions') :
          sessions'[j].id # id =>
            /\ sessions'[j].page # entry.page
            /\ sessions'[j].context # entry.context
            /\ \E i \in 1..Len(sessions) : sessions[i] = sessions'[j]
     /\ \A i \in 1..Len(sessions) :
          sessions[i].id # id => sessions'[i] = sessions[i]
     /\ id \notin Keys(sessions) =>
          /\ Len(sessions') = Len(sessions) + 1
          /\ sessions'[Len(sessions')] = entry

\* C5 (as stated): resolve called with an absent or unknown identifier binds
\* a fresh page to an identifier that was not in the mapping and was not
\* supplied by the caller.
C5_Original ==
  [][MintStep =>
       /\ FreshPage
       /\ last'.run.minted \notin Keys(sessions)
       /\ last'.run.minted # last'.sid]_vars

\* C5 (amended): an absent or empty identifier makes resolve mint one of
\* uuid4's making, which was not in the mapping unless uuid4 repeats one in
\* use; a non-empty identifier that is not in the mapping is adopted as the
\* new session's identifier; in every case the identifier is bound to a
\* fresh page that no other session shares.
C5_FreshSession ==
  [][MintStep =>
       /\ FreshPage
       /\ Truthy(last'.sid) =>
            /\ last'.run.minted = last'.sid
            /\ last'.run.minted \notin Keys(sessions)
       /\ ~Truthy(last'.sid) =>
            /\ last'.run.minted # last'.sid
            /\ last'.run.minted \in UuidChoices
            /\ ~Repeats => sessions'[Len(sessions')].id
                             = last'.run.minted]_vars

\* A second session was created for an identifier the caller made up.
C5_Witness ==
  /\ IsToolCall /\ Truthy(last.sid) /\ last.run.minted = last.sid
  /\ Len(sessions) >= 2
  /\ sessions[Len(sessions)].id = last.sid
  /\ sessions[Len(sessions)].page \notin
       {sessions[i].page : i \in 1..Len(sessions) - 1}

\* C6: a call that omits session_id and causes a session to be minted
\* returns the new identifier in its result, whatever its outcome.
C6_MintedReturned ==
  (IsToolCall /\ last.sid = None /\ last.run.minted # None) =>
    /\ ~last.raised
    /\ "session_id" \in DOMAIN last.env
    /\ last.env.session_id = last.run.minted

\* C7: a ToolError in a call whose arguments carried a session identifier
\* gives a failure result that carries that identifier.
C7_EchoOnFailure ==
  (IsToolCall /\ last.run.kind = "ToolError" /\ Truthy(last.sid)) =>
    /\ ~last.raised
    /\ last.env.ok = FALSE
    /\ "session_id" \in DOMAIN last.env
    /\ last.env.session_id = last.sid

\* A click on a known session found no element.
C7_Witness ==
  /\ last.name = "click" /\ last.run.kind = "ToolError"
  /\ last.run.code = "ELEMENT_NOT_FOUND"
  /\ last.sid \in Keys(sessions)
  /\ last.env.session_id = last.sid

\* C8 (as stated): an error code that leaves the service is one of the
\* eight kinds; a ToolError keeps its kind; any other failure becomes
\* INTERNAL_ERROR with its original message.
C8_Original ==
  (IsCall /\ ~last.raised /\ ~last.env.ok) =>
    /\ last.env.error.code \in ErrorCode
    /\ last.run.kind = "ToolError" =>
         /\ last.env.error.code = last.run.code
         /\ last.env.error.message = last.run.message
    /\ last.run.kind = "Exception" =>
         /\ last.env.error.code = "INTERNAL_ERROR"
         /\ last.env.error.message = last.run.message

\* C8 (amended): as above, but the original message is kept only when it
\* is not empty; an empty one is replaced by "Internal error".
C8_FixedKinds ==
  (IsCall /\ ~last.raised /\ ~last.env.ok) =>
    /\ last.env.error.code \in ErrorCode
    /\ last.run.kind = "ToolError" =>
         /\ last.env.error.code = last.run.code
         /\ last.env.error.message = last.run.message
    /\ last.run.kind = "Exception" =>
         /\ last.env.error.code = "INTERNAL_ERROR"
         /\ last.env.error.message = Shown(last.run.message)

\* A navigation timed out and the envelope says so; the kind is not the
\* catch-all.
C8_Witness ==
  /\ last.name = "navigate" /\ last.run.kind = "ToolError"
  /\ last.run.code = "NAVIGATION_TIMEOUT"
  /\ last.env.error.code = "NAVIGATION_TIMEOUT"

\* C9: a call with a name that is not registered returns ok = false, code
\* INTERNAL_ERROR and duration 0, runs no capability and leaves the session
\* mapping (and the pages) as they were.
C9_UnknownTool ==
  [][last'.name \in UnknownNames =>
       /\ ~last'.raised
       /\ last'.env.ok = FALSE
       /\ last'.env.error.code = "INTERNAL_ERROR"
       /\ last'.env.meta.duration_ms = 0
       /\ ~last'.ran
       /\ UNCHANGED <<sessions, created, pageDoc>>]_vars

\* An unknown name was called without session_id while a session existed.
C9_Witness ==
  /\ last.name \in UnknownNames /\ last.sid = None
  /\ Len(sessions) >= 1
  /\ last.env.error.message = <<"Unknown tool: ", last.name>>

\* The last operation was a shutdown that ran to its end.
Completed == last.name = "shutdown" /\ ~last.raised

\* BrowserManager._instance is None.
NoInstance == ~instance /\ \A k \in DOMAIN others : ~others[k].instance

\* C10: when a manager's shutdown has completed its mapping is empty and
\* every page and context it ever created is closed, also after an attempt
\* that was cut short; a shutdown call in the state a completed one leaves
\* (the browser closed, _instance None) changes nothing.
C10_Shutdown ==
  /\ [](Completed =>
          /\ sessions = <<>>
          /\ pageClosed = 1..created
          /\ ctxClosed = 1..created
          /\ browserClosed /\ NoInstance)
  /\ [][(browserClosed /\ NoInstance /\ last'.name = "shutdown") =>
          UNCHANGED <<sessions, created, pageDoc, pageClosed, ctxClosed,
                      browserClosed, instance, others>>]_vars

\* A shutdown call on a manager whose shutdown had completed, after get()
\* built another manager: the call resets _instance, which named the
\* other.
C10_AfterGet ==
  [][(browserClosed /\ last'.name = "shutdown") =>
       UNCHANGED <<sessions, created, pageDoc, pageClosed, ctxClosed,
                   browserClosed, instance, others>>]_vars

\* A shutdown completed after an earlier attempt had been cut short with
\* two sessions created.
C10_Witness ==
  /\ Completed /\ aborted /\ created >= 2
  /\ pageClosed = 1..created /\ ctxClosed = 1..created

\* ------------------------------------------------- claims: the dispatcher
\* The request lines among the first k lines of the input: the non-blank.
Requests(k) == {j \in 1..k : ~IsBlank(stdin[j])}

\* The line the n-th response answers: the n-th request line.
LineOf(n) ==
  CHOOSE k \in 1..Len(stdin) :
    ~IsBlank(stdin[k]) /\ Cardinality(Requests(k)) = n

\* The n-th request line was read and not yet answered.
Pending == IF dpc \in {"dispatch", "write"} THEN 1 ELSE 0

IdOf(line) == IF "id" \in DOMAIN line.doc THEN line.doc.id ELSE None

\* The request lines whose response has been written.
Answered == {k \in Requests(pos) : k < pos \/ dpc \in {"read", "done"}}

\* C11: the dispatcher writes (and flushes) exactly one response line per
\* request line it has read, in the order read, and reads the next line only
\* when the response to the previous request is written and flushed: at
\* most one request is read and unanswered, and none while it reads.
C11_OneResponsePerRequest ==
  /\ dpc # "crashed"
  /\ Len(stdout.lines) + Pending = Cardinality(Requests(pos))
  /\ dpc \in {"read", "done"} => stdout.flushed = Len(stdout.lines)
  /\ stdout.flushed >= Len(stdout.lines) - Pending
  /\ \A n \in 1..Len(stdout.lines) :
       MCPRequestValid(stdin[LineOf(n)])
         => stdout.lines[n].id = IdOf(stdin[LineOf(n)])

\* Three requests were answered, in the order they were read, after a blank
\* line.
C11_Witness ==
  /\ dpc = "done"
  /\ Len(stdin) = 3
  /\ IsBlank(stdin[1])
  /\ Len(stdout.lines) = 2
  /\ stdout.lines[1].id = <<"int", 2>>
  /\ stdout.lines[2].id = <<"int", 1>>

\* A line that is not blank and does not parse as a request.
Malformed(line) == ~IsBlank(line) /\ ~MCPRequestValid(line)

\* The responses that answer a line that does not parse, with a null id
\* and an error.
NullErrors ==
  {n \in 1..Len(stdout.lines) :
     /\ ~MCPRequestValid(stdin[LineOf(n)])
     /\ stdout.lines[n].id = None
     /\ "error" \in DOMAIN stdout.lines[n]}

\* C12 as stated: every line read that does not parse as a valid request
\* (a blank line is one) has a response with id null and an error.
C12_Original ==
  dpc \in {"read", "done"}
    => Cardinality(NullErrors)
         = Cardinality({k \in 1..pos : ~MCPRequestValid(stdin[k])})

\* C12: a non-blank line that does not parse as a request gets a response
\* with id null and an error, its dispatch invokes no capability and leaves
\* the sessions alone, and the loop goes on: it ends only at the end of
\* the input, with every line read and every request line answered.
C12_MalformedLine ==
  /\ [](/\ dpc # "crashed"
        /\ dpc = "done"
             => /\ pos = Len(stdin)
                /\ Len(stdout.lines) = Cardinality(Requests(Len(stdin)))
        /\ \A k \in Answered :
             Malformed(stdin[k])
               => /\ Cardinality(Requests(k)) <= Len(stdout.lines)
                  /\ stdout.lines[Cardinality(Requests(k))].id = None
                  /\ "error" \in DOMAIN stdout.lines[Cardinality(Requests(k))]
                  /\ "result" \notin
                       DOMAIN stdout.lines[Cardinality(Requests(k))])
  /\ [][(dpc = "dispatch" /\ Malformed(cur))
          => /\ UNCHANGED <<sessions, created, pageDoc>>
             /\ dpc' = "write"
             /\ ~disp'.ran]_<<vars, dvars>>

\* A malformed first line was answered with a null id and an error, and the
\* request after it was answered too.
C12_Witness ==
  /\ dpc = "done"
  /\ Len(stdin) = 2
  /\ Malformed(stdin[1])
  /\ ~IsBlank(stdin[2])
  /\ Len(stdout.lines) = 2
  /\ stdout.lines[1].id = None
  /\ "error" \in DOMAIN stdout.lines[1]

ExactlyOne(r) == ("result" \in DOMAIN r) # ("error" \in DOMAIN r)

\* C13: every response line, written or about to be, carries exactly one
\* of result and error.
C13_ResultXorError ==
  /\ \A n \in 1..Len(stdout.lines) : ExactlyOne(stdout.lines[n])
  /\ dpc = "write" => ExactlyOne(disp.line)

\* Responses with a result and responses with an error have been written.
C13_Witness ==
  /\ \E n \in 1..Len(stdout.lines) : "result" \in DOMAIN stdout.lines[n]
  /\ \E n \in 1..Len(stdout.lines) :
       /\ "error" \in DOMAIN stdout.lines[n]
       /\ stdout.lines[n].id # None
  /\ \E n \in 1..Len(stdout.lines) :
       /\ "error" \in DOMAIN stdout.lines[n]
       /\ stdout.lines[n].id = None

\* A tools/call request whose params lack the name.
NamelessCall(line) ==
  /\ MCPRequestValid(line)
  /\ line.doc.method = "tools/call"
  /\ ("params" \in DOMAIN line.doc => "name" \notin DOMAIN line.doc.params)

\* C14: handling a well-formed request never ends the loop, its response
\* carries the request's id, and a tools/call without a name is answered
\* with an error under the request's id.
C14_FailureKeepsId ==
  /\ dpc # "crashed"
  /\ (dpc = "write" /\ MCPRequestValid(cur))
       => /\ ~disp.raised
          /\ disp.line.id = IdOf(cur)
          /\ NamelessCall(cur)
               => /\ "error" \in DOMAIN disp.line
                  /\ "result" \notin DOMAIN disp.line
                  /\ ~disp.ran

\* A tools/call without a name was handled.
C14_Witness ==
  /\ dpc = "write"
  /\ NamelessCall(cur)
  /\ disp.line.id = <<"int", 2>>
  /\ "error" \in DOMAIN disp.line

\* A tools/call request with a name.
ValidCall(line) ==
  /\ MCPRequestValid(line)
  /\ line.doc.method = "tools/call"
  /\ "params" \in DOMAIN line.doc
  /\ "name" \in DOMAIN line.doc.params

\* C15: the response to a tools/call with a valid payload has, as its
\* result, the envelope ToolService.call returned, and no error, also when
\* the envelope says ok = false.
C15_ResultIsEnvelope ==
  (dpc = "write" /\ ValidCall(cur))
    => /\ "result" \in DOMAIN disp.line
       /\ "error" \notin DOMAIN disp.line
       /\ "ok" \in DOMAIN disp.env
       /\ disp.line.result = disp.env

\* A capability failed (a ToolError, and an unexpected exception) and the
\* failure is inside the result.
C15_Witness ==
  /\ dpc = "write"
  /\ ValidCall(cur)
  /\ disp.ran
  /\ ~disp.env.ok
  /\ "result" \in DOMAIN disp.line

\* ---------------------------------------------- claims: the scraping agent
\* What the job has done so far, read off its log.
Ops(step) == {i \in DOMAIN log : log[i].step = step}
GetHtmlCalls == Cardinality({i \in Ops("loop") : log[i].op = "get_html"})
ExtractionPasses == Cardinality(Ops("extract"))
Finished(status) == apc = "done" /\ extraction_result.status = status

\* C16: for every max_pages of the configuration's domain (a positive
\* integer, 1 when the option is left out; 0 is included here) and every
\* outcome of the pagination probes and clicks, the job fetches and extracts
\* at least 0 and at most max_pages pages.
C16_PagesWithinBudget ==
  max_pages >= 0 =>
    /\ 0 <= ExtractionPasses
    /\ ExtractionPasses <= GetHtmlCalls
    /\ GetHtmlCalls <= max_pages
    /\ GetHtmlCalls = page_count

\* A paginated job that used its whole budget of two pages.
C16_Witness ==
  /\ Finished("success")
  /\ max_pages = MaxPages
  /\ MaxPages >= 2
  /\ GetHtmlCalls = max_pages
  /\ ExtractionPasses = max_pages
  /\ \E i \in Ops("paginate") : log[i].op = "click" /\ log[i].ok

NavigateFailed == Len(log) >= 1 /\ log[1].op = "navigate" /\ ~log[1].ok

\* C17: when navigate fails, with whatever error code, the job ends at once:
\* nothing is called after it (no interaction, get_html, completion or
\* click), and the result has status error, empty data, an empty quality
\* report and the failure "<code>: <message>" as its error.
C17_NavigateFailureAborts ==
  NavigateFailed =>
    /\ Len(log) = 1
    /\ Finished("error")
    /\ Len(extraction_result.data.v) = 0
    /\ DOMAIN extraction_result.quality_report = {}
    /\ Len(extraction_result.error) > 2
    /\ extraction_result.error[1] \in ErrorCode
    /\ extraction_result.error[2] = ": "
    /\ interacted = 0
    /\ page_count = 0

\* navigate timed out on a job that has interactions and pages to do.
C17_Witness ==
  /\ NavigateFailed
  /\ extraction_result.error[1] = "NAVIGATION_TIMEOUT"
  /\ Len(config.interactions) > 0
  /\ max_pages > 0

\* The pre-interactions the job has gone through, in order, and the
\* configured ones up to that point.
Attempted == [i \in 1..Cardinality(Ops("interact")) |->
                log[CHOOSE j \in Ops("interact") :
                      Cardinality({k \in Ops("interact") : k <= j}) = i].op]
Configured(n) == [i \in 1..n |-> config.interactions[i].type]
PastInteractions == apc \notin {"navigate", "interact"} /\ ~NavigateFailed

\* C18: whatever subset of the configured click and fill interactions fails,
\* each interaction is attempted exactly once, in the configured order, and
\* the job goes on to the extraction loop: a job that failed no later than
\* its interactions failed at navigate.
C18_InteractionsBestEffort ==
  /\ Attempted = Configured(interacted)
  /\ PastInteractions => interacted = Len(config.interactions)
  /\ (Finished("error") /\ GetHtmlCalls = 0) => NavigateFailed

\* Both interactions of a click-then-fill list failed and a page was read.
C18_Witness ==
  /\ Len(config.interactions) = 2
  /\ Configured(2) = <<"click", "fill">>
  /\ interacted = 2
  /\ \A i \in Ops("interact") : ~log[i].ok
  /\ GetHtmlCalls >= 1

\* A completion response that carries a list of items: JSON whose "items"
\* (or first list, or the object itself) is what _parse_llm_response hands
\* back as a list.  Every other response is malformed.
ListOfItems(reply) ==
  /\ reply.form = "json"
  /\ parse_llm_response(reply).t = "list"

\* The extraction pass of a response that is not a list of items adds
\* nothing and does not fail the job.
AddsNothing ==
  /\ all_extracted_data' = all_extracted_data
  /\ apc' \in {"paginate", "structure"}
  /\ extraction_result' = extraction_result

\* C19: for every completion response that is malformed (no JSON object,
\* invalid JSON, or JSON that is not a list of items) the page contributes
\* no item and the job does not fail; only a list of items adds items, and
\* only a completion call that raised fails the pass.
C19_MalformedYieldsNothing ==
  [][apc = "extract" =>
       \/ \E reply \in ExtractReplies :
            /\ ListOfItems(reply)
            /\ all_extracted_data' =
                 all_extracted_data \o parse_llm_response(reply).v
            /\ extraction_result' = extraction_result
       \/ AddsNothing
       \/ /\ ~log'[Len(log')].ok
          /\ extraction_result'.status = "error"
    ]_<<vars, dvars, avars>>

\* The response {"items": 5} ended the job in error, {"items": "no"} added
\* its characters as items.
C19_Divergence ==
  \/ /\ Finished("error")
     /\ extraction_result.error = <<"'int' object is not iterable">>
     /\ log[Len(log)].step = "extract"
     /\ log[Len(log)].ok
  \/ /\ Finished("success")
     /\ all_extracted_data = <<JStr(<<"n">>), JStr(<<"o">>)>>

\* The pagination click of the job failed: the last call logged before the
\* job went on.
PaginationClicks == {i \in Ops("paginate") : log[i].op = "click"}
ClickFailedAt(i) == i \in PaginationClicks /\ ~log[i].ok

StoppedAfter(i) ==
  /\ i = Len(log)
  /\ apc \in {"structure", "done"}
  /\ apc = "done" =>
       /\ extraction_result.status = "success"
       /\ extraction_result.data =
            structure_data(all_extracted_data, config.schema)

\* C20: a click that fails during pagination, with whatever error code,
\* stops the page loop without failing the job: nothing more is fetched,
\* extracted or clicked, the job goes to structuring with the items it has
\* and ends with status success holding exactly those items.
C20_PaginationClickFailure ==
  /\ [](\A i \in DOMAIN log : ClickFailedAt(i) => StoppedAfter(i))
  /\ [][(apc = "click" /\ ~log'[Len(log')].ok) =>
          /\ apc' = "structure"
          /\ all_extracted_data' = all_extracted_data]_<<vars, dvars, avars>>

\* A job with a budget of two pages ended in success after its pagination
\* click failed, keeping the two items of its first page.
C20_Witness ==
  /\ Finished("success")
  /\ ClickFailedAt(Len(log))
  /\ Len(all_extracted_data) = 2
  /\ GetHtmlCalls = 1
  /\ max_pages = 2

\* The pagination probes and clicks of the job so far.
Probes == {i \in Ops("paginate") : log[i].op = "completion"}
NoMorePages ==
  /\ Len(log) >= 1
  /\ log[Len(log)].step = "paginate"
  /\ log[Len(log)].op = "completion"
  /\ log[Len(log)].ok
  /\ selector \in {"NO_PAGINATION", ""}

\* C21: with pagination enabled and max_pages = N, when the probe of page
\* k < N answers the sentinel or nothing, after a probe and a successful
\* click on each of the pages 1..k-1, exactly k pages have been fetched and
\* extracted, no click is made on page k, and the job goes on to structure
\* what it has and ends with status success.
C21_SentinelStopsLoop ==
  NoMorePages =>
    /\ pagination_enabled
    /\ Cardinality(Probes) < max_pages
    /\ GetHtmlCalls = Cardinality(Probes)
    /\ ExtractionPasses = Cardinality(Probes)
    /\ Cardinality(PaginationClicks) = Cardinality(Probes) - 1
    /\ \A i \in PaginationClicks : log[i].ok
    /\ apc \in {"structure", "done"}
    /\ apc = "done" => extraction_result.status = "success"

\* The scenario of the spec: a budget of three pages, the sentinel on the
\* second.
C21_Witness ==
  /\ NoMorePages
  /\ Finished("success")
  /\ max_pages = 3
  /\ Cardinality(Probes) = 2
  /\ selector = "NO_PAGINATION"

PaginationOff ==
  \/ "pagination" \notin DOMAIN config.options
  \/ ~config.options.pagination
Navigations == Cardinality(Ops("navigate"))

\* C22: when pagination is false or left out of the options, whatever
\* max_pages >= 1 is configured, a job makes one navigate, one get_html and
\* one extraction pass and no pagination probe or click: never more, and
\* exactly one of each when it runs to its end.
C22_NoPaginationOnePage ==
  (PaginationOff /\ max_pages >= 1) =>
    /\ Navigations <= 1
    /\ GetHtmlCalls <= 1
    /\ ExtractionPasses <= 1
    /\ Ops("paginate") = {}
    /\ Finished("success") =>
         /\ Navigations = 1
         /\ GetHtmlCalls = 1
         /\ ExtractionPasses = 1

\* A job with a budget of three pages and no pagination option has ended.
C22_Witness ==
  /\ Finished("success")
  /\ "pagination" \notin DOMAIN config.options
  /\ max_pages = 3
  /\ GetHtmlCalls = 1
  /\ Len(all_extracted_data) > 0

\* C23: a result with status error has empty data, an empty quality report
\* and an error message, also when pages extracted before the failure had
\* given items; a result with status success has no error message.
C23_NoPartialResult ==
  apc = "done" =>
    /\ extraction_result.status \in {"success", "error"}
    /\ extraction_result.status = "error" =>
         /\ Len(extraction_result.data.v) = 0
         /\ DOMAIN extraction_result.quality_report = {}
         /\ "error" \in DOMAIN extraction_result
    /\ extraction_result.status = "success" =>
         "error" \notin DOMAIN extraction_result

\* get_html failed on the second page, after the first had given items.
C23_Witness ==
  /\ Finished("error")
  /\ Len(all_extracted_data) > 0
  /\ GetHtmlCalls = 2
  /\ ~log[Len(log)].ok
  /\ log[Len(log)].op = "get_html"

\* The items extracted from a page: those of the list its extraction pass
\* returned, none when the response was malformed.
ItemsOf(page_data) == IF page_data.t = "list" THEN page_data.v ELSE <<>>

RECURSIVE Concatenated(_)
\* The items of the extraction passes of a history, in page order.
Concatenated(entries) ==
  IF entries = <<>> THEN <<>>
  ELSE (IF Head(entries).step = "extract" /\ Head(entries).ok
          THEN ItemsOf(Head(entries).page_data) ELSE <<>>)
       \o Concatenated(Tail(entries))

\* The value the result's data holds under the schema's array key.
UnderArrayKey(data, schema) ==
  data.v[CHOOSE i \in 1..Len(data.v) : data.v[i].k = ArrayField(schema)].v

\* C24: on a successful job the item list of the result, the one under the
\* schema's array key, is the concatenation in page order of the items
\* extracted from each processed page: nothing is dropped, merged or moved.
C24_ItemsInPageOrder ==
  Finished("success") =>
    /\ HasKey(extraction_result.data, ArrayField(config.schema))
    /\ UnderArrayKey(extraction_result.data, config.schema) =
         JList(Concatenated(log))

\* Two pages gave the same item and the result holds it twice, after the
\* first item of the first page.
C24_TwoPagesKept ==
  /\ Finished("success")
  /\ ExtractionPasses = 2
  /\ Len(Concatenated(log)) = 3
  /\ Concatenated(log)[2] = Concatenated(log)[3]
  /\ C24_ItemsInPageOrder

\* The schema's array key as the specification defines it: the first key,
\* in schema order, whose declared shape is a list, "items" when no key has
\* one.
DeclaredArrayKey(schema) ==
  IF \E i \in 1..Len(schema.v) : schema.v[i].v.t = "list"
    THEN schema.v[CHOOSE i \in 1..Len(schema.v) :
                    /\ schema.v[i].v.t = "list"
                    /\ \A j \in 1..(i - 1) : schema.v[j].v.t # "list"].k
    ELSE "items"

\* What data holds under a key is a list.
ListUnder(data, key) ==
  /\ HasKey(data, key)
  /\ data.v[CHOOSE i \in 1..Len(data.v) : data.v[i].k = key].v.t = "list"

LengthUnder(data, key) ==
  Len(data.v[CHOOSE i \in 1..Len(data.v) : data.v[i].k = key].v.v)

\* C25: for every successful job and every schema, with or without a
\* metadata section, total_items of the quality report is the number of
\* items accumulated over the pages and the length of the list that data
\* holds under the array key that structuring takes from the schema
\* ("items" when it takes none).
C25_TotalIsAccumulated ==
  Finished("success") =>
    /\ extraction_result.quality_report.total_items = Len(all_extracted_data)
    /\ ListUnder(extraction_result.data, ArrayField(config.schema))
    /\ LengthUnder(extraction_result.data, ArrayField(config.schema)) =
         extraction_result.quality_report.total_items

\* C26: structuring puts the accumulated items under the first schema key
\* whose declared shape is a list, and under "items" only when the schema
\* has no such key.
C26_UnderDeclaredArrayKey ==
  Finished("success") =>
    /\ ListUnder(extraction_result.data, DeclaredArrayKey(config.schema))
    /\ extraction_result.data.v[
         CHOOSE i \in 1..Len(extraction_result.data.v) :
           extraction_result.data.v[i].k = DeclaredArrayKey(config.schema)].v.v
         = all_extracted_data

\* The quality report of a job that ended in success.
Reported == extraction_result.quality_report

\* C27: in every quality report 0 <= complete_items <= total_items and the
\* completion rate is between 0.0 and 1.0 (0 and 1000 thousandths); the
\* report of an empty item list has total_items 0, complete_items 0, rate
\* 0.0 and empty missing_fields and errors.
C27_ReportInRange ==
  Finished("success") =>
    /\ 0 <= Reported.complete_items
    /\ Reported.complete_items <= Reported.total_items
    /\ 0 <= Reported.completion_rate
    /\ Reported.completion_rate <= 1000
    /\ Len(ReportItems(extraction_result.data)) = 0 =>
         /\ Reported.total_items = 0
         /\ Reported.complete_items = 0
         /\ Reported.completion_rate = 0
         /\ Len(Reported.missing_fields) = 0
         /\ Len(Reported.errors) = 0

\* One of two items was complete: rate 0.5.
C27_Witness ==
  /\ Finished("success")
  /\ Reported.total_items = 2
  /\ Reported.complete_items = 1
  /\ Reported.completion_rate = 500

\* A job whose pages gave no item reported zeros.
C27_EmptyList ==
  /\ Finished("success")
  /\ Len(all_extracted_data) = 0
  /\ Reported.total_items = 0
  /\ Reported.completion_rate = 0

RECURSIVE HasMissingField(_)
\* Some field, a key of the value or of a mapping reached from it through
\* mappings and sequences, has a null or empty-string value.
HasMissingField(x) ==
  IF x.t = "obj"
    THEN \E i \in 1..Len(x.v) :
           \/ x.v[i].v.t = "null"
           \/ x.v[i].v.t = "str" /\ x.v[i].v.s = <<>>
           \/ HasMissingField(x.v[i].v)
  ELSE IF x.t = "list"
    THEN \E i \in 1..Len(x.v) : HasMissingField(x.v[i])
  ELSE FALSE

\* The items of the analysed list that have no missing field.
CompleteItems ==
  {i \in 1..Len(ReportItems(extraction_result.data)) :
     ~HasMissingField(ReportItems(extraction_result.data)[i])}

\* C28: an item is counted in complete_items if and only if no field
\* anywhere in its nested mappings and sequences has a null or empty-string
\* value: complete_items is the number of such items, and the list that a
\* single item makes is reported complete exactly when the item is such.
C28_CompleteIffNoMissing ==
  Finished("success") =>
    /\ Reported.complete_items = Cardinality(CompleteItems)
    /\ \A i \in 1..Len(ReportItems(extraction_result.data)) :
         (generate_quality_report(
            JObj(<<Pair("items",
                        JList(<<ReportItems(extraction_result.data)[i]>>))>>)
          ).complete_items = 1) <=> i \in CompleteItems

\* Of two items, the one whose only missing field lies in a nested mapping
\* was not counted and the one with filled nested fields was.
C28_Witness ==
  /\ Finished("success")
  /\ Reported.total_items = 2
  /\ Reported.complete_items = 1
  /\ CompleteItems = {2}
  /\ all_extracted_data[1].t = "obj"
  /\ all_extracted_data[2].t = "obj"
  /\ \E i \in 1..Len(all_extracted_data[1].v) :
       /\ all_extracted_data[1].v[i].k = "seller"
       /\ HasMissingField(all_extracted_data[1].v[i].v)
  /\ HasKey(all_extracted_data[2], "offers")

RECURSIVE Dotted(_)
\* The dotted key path: the keys from the item down to the field, joined by
\* dots.
Dotted(keys) ==
  IF Len(keys) = 1 THEN keys[1]
  ELSE Dotted(SubSeq(keys, 1, Len(keys) - 1)) \o "." \o keys[Len(keys)]

RECURSIVE KeysMissing(_, _)
\* The missing fields of an item, each as the sequence of keys that leads to
\* it: the keyed fields whose value is null or the empty string; the index
\* of a list element is not part of the sequence.
KeysMissing(x, prefix) ==
  IF x.t = "obj"
    THEN UNION {IF \/ x.v[i].v.t = "null"
                   \/ x.v[i].v.t = "str" /\ x.v[i].v.s = <<>>
                  THEN {prefix \o <<x.v[i].k>>}
                  ELSE KeysMissing(x.v[i].v, prefix \o <<x.v[i].k>>)
                : i \in 1..Len(x.v)}
  ELSE IF x.t = "list"
    THEN UNION {KeysMissing(x.v[i], prefix) : i \in 1..Len(x.v)}
  ELSE {}

\* The field paths that an item misses.
PathsMissing(x, prefix) == {Dotted(keys) : keys \in KeysMissing(x, prefix)}

\* How many items of the analysed list miss a field path.
ItemsMissing(path) ==
  Cardinality({i \in 1..Len(ReportItems(extraction_result.data)) :
                 path \in PathsMissing(ReportItems(extraction_result.data)[i],
                                       <<>>)})

\* C29: each line "<path>: <count> items" of the missing-field summary
\* gives the number of items that miss the path, at least 1 and at most
\* total_items, also when one item misses the path in several elements of a
\* nested list.
C29_CountsItems ==
  Finished("success") =>
    \A i \in 1..Len(Reported.missing_fields) :
      /\ Reported.missing_fields[i][3] =
           ItemsMissing(Reported.missing_fields[i][1])
      /\ 1 <= Reported.missing_fields[i][3]
      /\ Reported.missing_fields[i][3] <= Reported.total_items

\* One item with two offers without a price: "offers.p: 2 items" of
\* total_items 1.
C29_CountsOccurrences ==
  /\ Finished("success")
  /\ Reported.total_items = 1
  /\ Reported.missing_fields = << <<"offers.p", ": ", 2, " items">> >>

\* A leaf field: a keyed value with nothing below it.
IsLeaf(value) ==
  \/ value.t \in {"null", "num", "str"}
  \/ value.t \in {"obj", "list"} /\ Len(value.v) = 0

RECURSIVE Flips(_)
\* The values got from x by changing one leaf field, anywhere in its nested
\* mappings and sequences, to the empty string.
Flips(x) ==
  IF x.t = "obj"
    THEN UNION {IF IsLeaf(x.v[i].v)
                  THEN {JObj([x.v EXCEPT ![i] = Pair(x.v[i].k, JStr(<<>>))])}
                  ELSE {JObj([x.v EXCEPT ![i] = Pair(x.v[i].k, f)]) :
                          f \in Flips(x.v[i].v)}
                : i \in 1..Len(x.v)}
  ELSE IF x.t = "list"
    THEN UNION {{JList([x.v EXCEPT ![i] = f]) : f \in Flips(x.v[i])}
                : i \in 1..Len(x.v)}
  ELSE {}

\* The completion rate _generate_quality_report gives for a list of items.
RateOf(list) ==
  generate_quality_report(JObj(<<Pair("items", JList(list))>>)).completion_rate

\* The analysed list with item i replaced.
Mutated(i, item) == [ReportItems(extraction_result.data) EXCEPT ![i] = item]

\* C30 (as stated): in any item list, changing one leaf field of an item
\* without missing fields to the empty string, the other items unchanged,
\* strictly decreases the reported completion rate.
C30_Original ==
  (Finished("success") /\ Reported.total_items > 0) =>
    /\ \A i \in CompleteItems :
         \A f \in Flips(ReportItems(extraction_result.data)[i]) :
           RateOf(Mutated(i, f)) < Reported.completion_rate

\* C30 (amended): such a change never increases the reported completion
\* rate, and strictly decreases it when the list has at most 1000 items;
\* the rate is rounded to three decimals, and in a longer list the loss of
\* one complete item can round to the same rate.
C30_SingleMutation ==
  (Finished("success") /\ Reported.total_items > 0) =>
    /\ \A i \in CompleteItems :
         \A f \in Flips(ReportItems(extraction_result.data)[i]) :
           /\ RateOf(Mutated(i, f)) <= Reported.completion_rate
           /\ Reported.total_items <= 1000 =>
                RateOf(Mutated(i, f)) < Reported.completion_rate

\* A list of two complete items, one with nested fields: emptying a nested
\* leaf takes the rate from 1.0 to 0.5.
C30_Witness ==
  /\ Finished("success")
  /\ Reported.total_items = 2
  /\ Reported.completion_rate = 1000
  /\ \E i \in CompleteItems :
       /\ ReportItems(extraction_result.data)[i].t = "obj"
       /\ HasKey(ReportItems(extraction_result.data)[i], "offers")
       /\ \E f \in Flips(ReportItems(extraction_result.data)[i]) :
            /\ f.v[1] = ReportItems(extraction_result.data)[i].v[1]
            /\ RateOf(Mutated(i, f)) = 500

\* In a list of LongPage items the rate did not move.
C30_LongListSameRate ==
  /\ Finished("success")
  /\ Reported.total_items = LongPage
  /\ \E i \in CompleteItems :
       \E f \in Flips(ReportItems(extraction_result.data)[i]) :
         RateOf(Mutated(i, f)) = Reported.completion_rate

\* The field paths missed by some item of the analysed list.
AllPathsMissing ==
  UNION {PathsMissing(ReportItems(extraction_result.data)[k], <<>>) :
           k \in 1..Len(ReportItems(extraction_result.data))}

\* The first item of the analysed list that misses a field path.
FirstSeen(path) ==
  CHOOSE k \in 1..Len(ReportItems(extraction_result.data)) :
    /\ path \in PathsMissing(ReportItems(extraction_result.data)[k], <<>>)
    /\ \A j \in 1..(k - 1) :
         path \notin PathsMissing(ReportItems(extraction_result.data)[j], <<>>)

\* C31: the missing-field summary has exactly one entry for each distinct
\* field path that some item misses and for no other, in the order in which
\* the items first miss them; the path of a field is its dotted key path,
\* without list indexes, the same for every element of a nested list.
C31_OneEntryPerPath ==
  Finished("success") =>
    /\ \A i, j \in 1..Len(Reported.missing_fields) :
         i # j => Reported.missing_fields[i][1] # Reported.missing_fields[j][1]
    /\ {Reported.missing_fields[i][1] :
          i \in 1..Len(Reported.missing_fields)} = AllPathsMissing
    /\ \A i, j \in 1..Len(Reported.missing_fields) :
         (/\ i < j
          /\ Reported.missing_fields[i][1] \in AllPathsMissing
          /\ Reported.missing_fields[j][1] \in AllPathsMissing)
           => FirstSeen(Reported.missing_fields[i][1])
                <= FirstSeen(Reported.missing_fields[j][1])

\* Two items: one misses name under the empty key, the other misses name
\* itself; the summary has the one entry "name: 2 items".
C31_EmptyKeyMerged ==
  /\ Finished("success")
  /\ Reported.total_items = 2
  /\ AllPathsMissing = {".name", "name", "price"}
  /\ Reported.missing_fields[1] = <<"name", ": ", 2, " items">>

\* Two items, the second with two offers without price: seller.city comes
\* before offers.p, which has a single entry.
C31_NestedListOnePath ==
  /\ Finished("success")
  /\ Reported.total_items = 2
  /\ Len(Reported.missing_fields) = 2
  /\ Reported.missing_fields[1][1] = "seller.city"
  /\ Reported.missing_fields[2][1] = "offers.p"
  /\ C31_OneEntryPerPath

\* How far a job is: START before navigate, NAVIGATED while the
\* pre-interactions run, INTERACTED and EXTRACTING in the page loop, then the
\* loop has ended and the data are structured and scored, then the job is
\* over (DONE or ERROR).
Rank(position) ==
  CASE position = "navigate" -> 0
    [] position = "interact" -> 1
    [] position \in {"loop", "extract", "paginate", "click"} -> 2
    [] position = "structure" -> 3
    [] OTHER -> 4

\* The calls of a history that are made in the page loop.
InLoop == Ops("loop") \cup Ops("extract") \cup Ops("paginate")

\* C32: a job goes through START, NAVIGATED, INTERACTED, EXTRACTING,
\* STRUCTURED, SCORED, DONE in this order: navigate is its first capability
\* call and its only navigate, every pre-interaction comes before the first
\* get_html, a success result is made only by the structuring and scoring
\* that follow the end of the page loop, and a job in ERROR makes no more
\* call and never gets a success result.
C32_StateOrder ==
  /\ [](/\ Len(log) > 0 => Ops("navigate") = {1}
        /\ \A i \in Ops("interact"), j \in InLoop : i < j
        /\ extraction_result.status = "success" => apc = "done")
  /\ [][/\ Rank(apc) <= Rank(apc')
        /\ apc' = "structure" => Rank(apc) = 2
        /\ extraction_result'.status = "success" => apc = "structure"
        /\ extraction_result.status = "error" =>
             /\ log' = log
             /\ extraction_result' = extraction_result
             /\ apc' = "done"
       ]_<<vars, dvars, avars>>

\* A job with two pre-interactions and two pages, a pagination click between
\* them, has ended in success.
C32_Witness ==
  /\ Finished("success")
  /\ Len(config.interactions) = 2
  /\ Cardinality(Ops("interact")) = 2
  /\ GetHtmlCalls = 2
  /\ PaginationClicks # {}

\* The capability calls of a history: navigate, click, fill and get_html
\* calls (a wait, a scroll and the completion calls are not).
CapabilityCalls ==
  {i \in DOMAIN log : log[i].op \in {"navigate", "click", "fill", "get_html"}}

\* An upper bound on the steps a job still has to take: the navigate, the
\* interactions left, and for each page of the budget left a get_html, an
\* extraction, a probe and a click, then the end of the loop and the
\* structuring with its report.
Remaining ==
  LET budget == IF max_pages > 0 THEN max_pages ELSE 0
      pages == 4 * (budget - page_count)
  IN CASE apc = "navigate" -> Len(config.interactions) + 4 * budget + 3
       [] apc = "interact" ->
            (Len(config.interactions) - interacted) + 4 * budget + 2
       [] apc = "loop" -> pages + 2
       [] apc = "extract" -> pages + 5
       [] apc = "paginate" -> pages + 4
       [] apc = "click" -> pages + 3
       [] apc = "structure" -> 1
       [] OTHER -> 0

\* C33: every job whose calls return ends with a terminal result, success or
\* error: every step brings the job strictly nearer to its end, of which it
\* is never farther than the steps of its navigate, its interactions and its
\* page budget, and a job that is over has a success or an error result.
\* For a page budget of the configuration's domain (a positive integer) the
\* job makes at most 1 navigate, as many interaction calls as the
\* configuration has interactions, max_pages get_html calls and
\* max_pages - 1 pagination clicks, so at most their sum of capability calls.
C33_Terminates ==
  /\ [](/\ Remaining >= 0
        /\ Remaining = 0 <=> apc = "done"
        /\ apc = "done" => extraction_result.status \in {"success", "error"}
        /\ max_pages >= 1 =>
             /\ Navigations <= 1
             /\ Cardinality(Ops("interact") \cap CapabilityCalls)
                  <= Len(config.interactions)
             /\ GetHtmlCalls <= max_pages
             /\ Cardinality(PaginationClicks) <= max_pages - 1
             /\ Cardinality(CapabilityCalls)
                  <= 1 + Len(config.interactions) + max_pages
                       + (max_pages - 1))
  /\ [][Remaining' < Remaining]_<<vars, dvars, avars>>

\* While a job is not over, its next step can be taken.
C33_NeverStuck == apc # "done" => ENABLED AgentNext

\* A finished job that made every call of its budget: navigate, one call per
\* interaction, a get_html for each page and a click between the pages.
C33_Witness ==
  /\ Finished("success")
  /\ max_pages = MaxPages
  /\ Len(config.interactions) = MaxInteractions
  /\ Cardinality(CapabilityCalls)
       = 1 + Len(config.interactions) + max_pages + (max_pages - 1)

\* For a budget of 0 pages the sum of C33 is one short of the calls made.
C33_ZeroBudget ==
  max_pages = 0 =>
    Cardinality(CapabilityCalls) <= Len(config.interactions)

\* A call can be issued: the client has taken the result of the one before.
\* Every state of a manager is its state in such a state of the service,
\* since taking a result leaves the managers as they are.
Idle == last = NoOp

\* C34: in every state of the service, a click whose arguments are valid,
\* whose session resolves to a page and whose selector matches no element
\* of that page returns an envelope with ok = false, the error code
\* ELEMENT_NOT_FOUND and a duration that is present and not negative, and no
\* page shows another document than before the call.
C34_NoElement ==
  Idle => \A sid \in Sids, sel \in Selectors, eng \in ClickEng :
    \A uuid \in Uuids(sid) :
      LET raw == Args(sid, [selector |-> sel])
          ws == with_session(raw, ClickInputValid(raw), uuid, Mgr)
          res == call("click", raw, uuid, eng, Mgr)
      IN (ws.kind = "return" /\ ~eng.crash /\ eng.count = 0) =>
           /\ ~res.raised
           /\ res.env.ok = FALSE
           /\ res.env.tool = "click"
           /\ res.env.error.code = "ELEMENT_NOT_FOUND"
           /\ "data" \notin DOMAIN res.env
           /\ "duration_ms" \in DOMAIN res.env.meta
           /\ res.env.meta.duration_ms >= 0
           /\ \A page \in DOMAIN pageDoc :
                res.M.pageDoc[page] = pageDoc[page]
           /\ \A page \in DOMAIN res.M.pageDoc \ DOMAIN pageDoc :
                res.M.pageDoc[page] = Blank

\* A click on a session whose page had been navigated found no element: the
\* caller got ELEMENT_NOT_FOUND and the page still shows the document.
C34_Witness ==
  /\ last.name = "click" /\ ~last.raised
  /\ last.run.kind = "ToolError" /\ last.run.code = "ELEMENT_NOT_FOUND"
  /\ last.env.ok = FALSE
  /\ last.env.error.code = "ELEMENT_NOT_FOUND"
  /\ last.env.meta.duration_ms >= 0
  /\ last.sid \in Keys(sessions)
  /\ pageDoc[Lookup(sessions, last.sid).page] \in Urls

\* C36: in every state of the service, a navigate whose arguments are valid
\* and whose URL has a scheme other than http and https returns an envelope
\* with ok = false and the error code INVALID_URL, whatever the engine would
\* answer, and loads nothing: no page shows another document than before,
\* and when the arguments name a session of the mapping, the mapping and
\* that session's page are as before.
C36_InvalidUrl ==
  Idle => \A sid \in Sids, url \in Urls, eng \in NavEng :
    \A uuid \in Uuids(sid) :
      LET raw == Args(sid, [url |-> url])
          ws == with_session(raw, NavigateInputValid(raw), uuid, Mgr)
          res == call("navigate", raw, uuid, eng, Mgr)
      IN (ws.kind = "return" /\ UrlScheme(url) \notin {"http", "https"}) =>
           /\ ~res.raised
           /\ res.env.ok = FALSE
           /\ res.env.error.code = "INVALID_URL"
           /\ \A page \in DOMAIN pageDoc :
                res.M.pageDoc[page] = pageDoc[page]
           /\ sid \in Keys(sessions) =>
                /\ res.M.sessions = sessions
                /\ res.M.pageDoc = pageDoc
                /\ res.env.session_id = sid

\* A session whose page shows a document was asked to navigate to a URL of
\* another scheme: INVALID_URL, and the page still shows the document.
C36_Witness ==
  /\ last.name = "navigate" /\ ~last.raised
  /\ last.run.kind = "ToolError" /\ last.run.code = "INVALID_URL"
  /\ last.env.error.code = "INVALID_URL"
  /\ last.sid \in Keys(sessions)
  /\ last.run.minted = None
  /\ pageDoc[Lookup(sessions, last.sid).page] \in Urls

\* The call is answered with INTERNAL_ERROR for its arguments, and the
\* manager is as before: the same mapping, no context or page created, every
\* page showing what it showed.
Rejected(name, raw, uuid, eng) ==
  LET res == call(name, raw, uuid, eng, Mgr)
  IN /\ ~res.raised
     /\ res.env.ok = FALSE
     /\ res.env.tool = name
     /\ res.env.error.code = "INTERNAL_ERROR"
     /\ res.env.error.message = <<"Invalid arguments supplied to tool.">>
     /\ res.run.minted = None
     /\ res.M = Mgr

\* C39: in every state of the service, a capability call whose arguments
\* fail validation (a click without a selector, a navigate without a url, a
\* fill without a value, a screenshot of an unknown mode, any capability with
\* a session_id that is not a string) returns INTERNAL_ERROR and leaves the
\* session mapping and the pages unchanged, whether the arguments name a
\* session of the mapping, an unknown one or none.
C39_ValidationFirst ==
  Idle => \A sid \in Sids : \A uuid \in Uuids(sid) :
    /\ \A eng \in ClickEng : Rejected("click", Args(sid, NoArgs), uuid, eng)
    /\ \A eng \in NavEng : Rejected("navigate", Args(sid, NoArgs), uuid, eng)
    /\ \A sel \in Selectors, eng \in FillEng :
         Rejected("fill", Args(sid, [selector |-> sel]), uuid, eng)
    /\ \A eng \in ShotEng :
         Rejected("screenshot", Args(sid, [mode |-> "window"]), uuid, eng)
    /\ sid = NotAStr =>
         /\ \A sel \in Selectors, eng \in ClickEng :
              Rejected("click", Args(sid, [selector |-> sel]), uuid, eng)
         /\ \A url \in Urls, eng \in NavEng :
              Rejected("navigate", Args(sid, [url |-> url]), uuid, eng)
         /\ \A eng \in ShotEng :
              Rejected("screenshot", Args(sid, NoArgs), uuid, eng)
         /\ \A eng \in ReadEng :
              /\ Rejected("extract_links", Args(sid, NoArgs), uuid, eng)
              /\ Rejected("get_html", Args(sid, NoArgs), uuid, eng)

\* A click without a selector named an identifier that is not in the
\* mapping: it was answered INTERNAL_ERROR and the identifier was not adopted.
C39_Witness ==
  /\ last.name = "click" /\ ~last.raised
  /\ last.run.kind = "ToolError" /\ last.run.details # NoDetails
  /\ last.env.error.code = "INTERNAL_ERROR"
  /\ last.sid \in SessIds \ Keys(sessions)
  /\ Len(sessions) >= 1

\* The page the job's session shows.
JobPage == pageDoc[Lookup(sessions, self_session_id).page]

\* The get_html calls made before entry i of the history.
FetchedBefore(i) ==
  Cardinality({j \in Ops("loop") : j < i /\ log[j].op = "get_html"})

\* C37: in every job with a page budget of the configuration's domain (a
\* positive integer) the pagination probe and the pagination click are each
\* made at most max_pages - 1 times, each of them after fewer than max_pages
\* pages were fetched, and from the fetch of the last page of the budget on
\* no step probes, clicks or takes the session's page to another document.
C37_NoAdvancePastBudget ==
  /\ [](max_pages >= 1 =>
          /\ Cardinality(Probes) <= max_pages - 1
          /\ Cardinality(PaginationClicks) <= max_pages - 1
          /\ \A i \in Ops("paginate") : FetchedBefore(i) < max_pages
          /\ page_count >= max_pages => apc \notin {"paginate", "click"})
  /\ [][(max_pages >= 1 /\ page_count >= max_pages) =>
          /\ Ops("paginate")' = Ops("paginate")
          /\ pageDoc' = pageDoc
          /\ sessions' = sessions]_<<vars, dvars, avars>>

\* A job used its whole budget of pages, with a probe and a click that landed
\* between each two of them, and ended on the last page it extracted.
C37_Witness ==
  /\ Finished("success")
  /\ max_pages = MaxPages
  /\ page_count = max_pages
  /\ Cardinality(Probes) = max_pages - 1
  /\ Cardinality(PaginationClicks) = max_pages - 1
  /\ \A i \in PaginationClicks : log[i].ok
  /\ JobPage = ClickTarget
  /\ log[Len(log)].step = "extract"

\* The session created last: in a run of jobs, where only navigate creates
\* sessions and every navigate is called without an identifier, the session
\* that the navigate of the job under way was given.
OwnSession == sessions[CHOOSE i \in 1..Len(sessions) :
                         sessions[i].page = created]

\* The step makes a capability call that names a session.
CallsOnSession ==
  /\ Len(log') = Len(log) + 1
  /\ log'[Len(log')].op \in {"click", "fill", "get_html"}

\* C38: when an agent runs jobs one after the other, every navigate is given
\* a session (a context and a page) that did not exist before and the agent
\* takes its identifier when the navigate succeeds; every click, fill,
\* get_html and pagination click of a job carries that identifier, which
\* names the session created by the job's own navigate and no session
\* created earlier.
C38_OwnSession ==
  [][/\ (apc = "navigate" /\ apc' # "navigate") =>
          /\ created' = created + 1
          /\ OwnSession'.page \notin 1..created
          /\ OwnSession'.context \notin 1..created
          /\ \A i \in 1..Len(sessions) :
               sessions[i].id # OwnSession'.id =>
                 \E j \in 1..Len(sessions') : sessions'[j] = sessions[i]
          /\ log'[Len(log')].ok => self_session_id' = OwnSession'.id
     /\ CallsOnSession =>
          /\ log'[Len(log')].sid = self_session_id
          /\ log'[Len(log')].sid = OwnSession.id
          /\ Lookup(sessions, log'[Len(log')].sid).page = created
          /\ sessions' = sessions
    ]_<<vars, dvars, avars>>

\* The second job of an agent has called get_html and clicked for the next
\* page on its own session, while the session of the first job is still in
\* the mapping.
C38_Witness ==
  /\ Len(sessions) = 2
  /\ apc = "done"
  /\ self_session_id = sessions[2].id
  /\ self_session_id # sessions[1].id
  /\ GetHtmlCalls >= 1
  /\ \E i \in PaginationClicks : log[i].sid = sessions[2].id

\* The batch entry point has a key and its configuration file loads.
Launched ==
  /\ Truthy(cli.api_key) \/ Truthy(cli.env_key)
  /\ cli.config_file.form = "object"

\* C35 (as stated): once it has a key and its configuration file loads, the
\* batch entry point runs the job, writes the result file in every case, and
\* exits with 0 when the job's status is success and with 1 otherwise.
C35_Original ==
  (cli.pc = "exited" /\ Launched) =>
    /\ extraction_result.status \in {"success", "error"}
    /\ cli.output # Absent
    /\ cli.exit_code = 0 <=> extraction_result.status = "success"

\* What happens instead: the entry point ends on the NameError of line 125
\* with exit code 1, no job has been run, no capability called, no session
\* created and no result file written.
C35_Divergence ==
  (cli.pc = "exited" /\ Launched) =>
    /\ cli.raised = "NameError" /\ cli.line = 125
    /\ cli.exit_code = 1
    /\ cli.output = Absent
    /\ apc = "off" /\ log = <<>> /\ created = 0
    /\ extraction_result.status = ""

====
